---- MODULE Spec2Model ----
(***************************************************************************)
(* Radikant-JSON-C (src/include/rjson.h): a strict JSON codec.             *)
(*                                                                         *)
(* The C heap is a sequence of blocks addressed by their index (0 is the   *)
(* NULL pointer); addresses are never reused, so a stale pointer stays     *)
(* recognisable.  Bytes are the integers 0..255.  The recursive functions  *)
(* parse_value / parse_array / parse_object, serialize_value and           *)
(* rjson_free run on an explicit call stack (one frame per activation),    *)
(* which lets the model follow the code to RJSON_MAX_DEPTH and beyond; a   *)
(* call of the interface is one step of its caller.  The functions that    *)
(* do not recurse on the nesting are operators.                            *)
(***************************************************************************)
EXTENDS Integers, Sequences, FiniteSets, TLC

VARIABLES
    mem,      \* the heap: [heap, n, fail, faults]
    env,      \* what the C library does where the standard leaves it open
    deep,     \* how deep the activations of the last call went: [called, passed]
    ret,      \* value returned by the activation that finished last
    retv,     \* the tree `ret` points to, as a value
    text,     \* the zero-terminated input of the running rjson_parse
    pos,      \* the cursor *json (1-based index into text)
    sb,       \* struct strbuf of the running rjson_serialize
    phase,    \* where the caller of the library is
    doc,      \* the document the caller started from
    tree1,    \* result of the first rjson_parse: [p, v]
    out,      \* what rjson_serialize stored through its out parameters: [str, len]
    tree2,    \* result of parsing the serializer's output: [p, v]
    hist,     \* what the caller observed at its calls
    roots,    \* the nodes the caller owns (it built them and has not donated them)
    call,     \* the caller's last call of the building interface, with the heap before it
    chain     \* the nested tree a caller builds from the root down: [root, current, i]

vars == <<mem, env, deep, ret, retv, text, pos, sb, phase, doc,
          tree1, out, tree2, hist, roots, call, chain>>

(***************************************************************************)
(* Bytes                                                                   *)
(***************************************************************************)
Ascii ==
    ("[" :> 91) @@ ("]" :> 93) @@ ("{" :> 123) @@ ("}" :> 125) @@
    ("\"" :> 34) @@ ("\\" :> 92) @@ ("/" :> 47) @@ (":" :> 58) @@
    ("," :> 44) @@ (" " :> 32) @@ ("\t" :> 9) @@ ("\n" :> 10) @@
    ("\r" :> 13) @@ ("\f" :> 12) @@ ("-" :> 45) @@ ("+" :> 43) @@
    ("." :> 46) @@ ("0" :> 48) @@ ("1" :> 49) @@ ("2" :> 50) @@
    ("3" :> 51) @@ ("4" :> 52) @@ ("5" :> 53) @@ ("6" :> 54) @@
    ("7" :> 55) @@ ("8" :> 56) @@ ("9" :> 57) @@ ("A" :> 65) @@
    ("B" :> 66) @@ ("C" :> 67) @@ ("D" :> 68) @@ ("E" :> 69) @@
    ("F" :> 70) @@ ("X" :> 88) @@ ("a" :> 97) @@ ("b" :> 98) @@
    ("c" :> 99) @@ ("d" :> 100) @@ ("e" :> 101) @@ ("f" :> 102) @@
    ("g" :> 103) @@ ("k" :> 107) @@ ("l" :> 108) @@ ("n" :> 110) @@
    ("r" :> 114) @@ ("s" :> 115) @@ ("t" :> 116) @@ ("u" :> 117) @@
    ("v" :> 118) @@ ("x" :> 120)

\* The bytes of a C string literal, written one character per element.
B(s) == [i \in DOMAIN s |-> Ascii[s[i]]]

\* The byte at index p of a zero-terminated string: the terminator sits right
\* after the last byte.
At(t, p) == IF p >= 1 /\ p <= Len(t) THEN t[p] ELSE 0

isdigit(c) == c >= 48 /\ c <= 57

Max(a, b) == IF a >= b THEN a ELSE b

\* A variant of HexVal that knows the lower-case digits only.
HexValLower(c) ==
    IF c >= 48 /\ c <= 57 THEN c - 48
    ELSE IF c >= 97 /\ c <= 102 THEN c - 97 + 10
    ELSE -1

\* The value of a hexadecimal digit, -1 for any other byte (rjson.h:301-307).
HexVal(c) ==
    IF c >= 48 /\ c <= 57 THEN c - 48
    ELSE IF c >= 97 /\ c <= 102 THEN c - 97 + 10
    ELSE IF c >= 65 /\ c <= 70 THEN c - 65 + 10
    ELSE -1

\* `v = x; F(v)`: x is computed once and named.
Bind(x, F(_)) == CHOOSE y \in {F(v) : v \in {x}} : TRUE

(***************************************************************************)
(* The heap: malloc / calloc / realloc / free                              *)
(***************************************************************************)
NumZero == [cls |-> "fin", sign |-> 0, mant |-> 0, exp |-> 0]

\* A zeroed struct rjson_value (calloc) with its tag set.
ZeroValue(type) ==
    [type |-> type, bool_val |-> 0, num_val |-> NumZero, str_val |-> 0,
     elements |-> 0, keys |-> 0, values |-> 0, count |-> 0]

\* n counts the allocation requests of the running call of the interface; the
\* request number `fail` is the one the C library refuses (0: none).
EmptyMem == [heap |-> <<>>, n |-> 0, fail |-> 0, faults |-> {}]

\* The heap at the start of a call whose f-th allocation request fails.
Entering(m, f) == [m EXCEPT !.n = 0, !.fail = f]

\* The heap when the call has returned.
Leaving(m) == [m EXCEPT !.n = 0, !.fail = 0]

\* One allocation request.
Malloc(m, kind, size, data) ==
    IF m.n + 1 = m.fail
    THEN [m |-> [m EXCEPT !.n = m.n + 1], p |-> 0]
    ELSE [m |-> [m EXCEPT !.n = m.n + 1,
                          !.heap = Append(m.heap, [kind |-> kind, live |-> TRUE,
                                                   size |-> size, data |-> data])],
          p |-> Len(m.heap) + 1]

\* free(p): free(NULL) does nothing; freeing a dead block is a double free.
Free(m, p) ==
    IF p = 0 THEN m
    ELSE IF ~m.heap[p].live THEN [m EXCEPT !.faults = m.faults \cup {"double free"}]
    ELSE [m EXCEPT !.heap[p].live = FALSE]

\* What is kept of a block's contents when it is resized to `size` elements.
Resize(data, size) == IF Len(data) > size THEN SubSeq(data, 1, size) ELSE data

\* Store x in slot i of an array; a slot never written holds -1.
Put(data, i, x) ==
    [j \in 1..(IF i > Len(data) THEN i ELSE Len(data)) |->
        IF j = i THEN x ELSE IF j <= Len(data) THEN data[j] ELSE -1]

\* realloc(p, size) for a block of `size` elements (kind: the element type, for
\* p = NULL).  A failed request leaves the block alone.  Whether a successful
\* request moves the block, and whether a request for zero bytes frees it and
\* returns NULL, is up to the C library.
Realloc(m, kind, p, size) ==
    IF m.n + 1 = m.fail THEN [m |-> [m EXCEPT !.n = m.n + 1], p |-> 0]
    ELSE IF p = 0 THEN Malloc(m, kind, size, <<>>)
    ELSE IF ~m.heap[p].live
    THEN [m |-> [m EXCEPT !.n = m.n + 1,
                          !.faults = m.faults \cup {"realloc of freed block"}],
          p |-> 0]
    ELSE IF size = 0 /\ env.zeroFrees
    THEN [m |-> [Free(m, p) EXCEPT !.n = m.n + 1], p |-> 0]
    ELSE IF env.moves
    THEN LET r == Malloc(m, kind, size, Resize(m.heap[p].data, size))
         IN  [m |-> Free(r.m, p), p |-> r.p]
    ELSE [m |-> [m EXCEPT !.n = m.n + 1, !.heap[p].size = size,
                          !.heap[p].data = Resize(m.heap[p].data, size)],
          p |-> p]

\* The blocks that are allocated and not freed.
Live(m) == {p \in 1..Len(m.heap) : m.heap[p].live}

(***************************************************************************)
(* Constructors                                                            *)
(***************************************************************************)
create_value(m, type) == Malloc(m, "value", 1, ZeroValue(type))

rjson_null_new(m) == create_value(m, "RJSON_NULL")

rjson_bool_new(m, bool_val) ==
    Bind(create_value(m, "RJSON_BOOL"), LAMBDA r :
        IF r.p = 0 THEN r
        ELSE [m |-> [r.m EXCEPT !.heap[r.p].data.bool_val =
                                    IF bool_val # 0 THEN 1 ELSE 0],
              p |-> r.p])

rjson_number_new(m, num_val) ==
    Bind(create_value(m, "RJSON_NUMBER"), LAMBDA r :
        IF r.p = 0 THEN r
        ELSE [m |-> [r.m EXCEPT !.heap[r.p].data.num_val = num_val], p |-> r.p])

\* str_val is a zero-terminated C string: the bytes up to the terminator.
rjson_string_new(m, str_val) ==
    Bind(create_value(m, "RJSON_STRING"), LAMBDA r :
        IF r.p = 0 THEN r
        ELSE Bind(Malloc(r.m, "chars", Len(str_val) + 1, str_val), LAMBDA s :
                 IF s.p = 0 THEN [m |-> Free(s.m, r.p), p |-> 0]
                 ELSE [m |-> [s.m EXCEPT !.heap[r.p].data.str_val = s.p],
                       p |-> r.p]))

rjson_array_new(m) == create_value(m, "RJSON_ARRAY")

rjson_object_new(m) == create_value(m, "RJSON_OBJECT")

(***************************************************************************)
(* Add operations                                                          *)
(***************************************************************************)
\* A NULL `const char *` argument.
NoString == <<-1>>

\* A variant of rjson_array_add that counts the element before it knows that
\* there is room for it.
array_add_counting(m, array, element) ==
    IF array = 0 \/ m.heap[array].data.type # "RJSON_ARRAY" \/ element = 0
    THEN [m |-> m, rc |-> -1]
    ELSE
    Bind(m.heap[array].data.count + 1, LAMBDA new_count :
    Bind(Realloc([m EXCEPT !.heap[array].data.count = new_count], "ptrs",
                 m.heap[array].data.elements, new_count), LAMBDA r :
        IF r.p = 0 THEN [m |-> r.m, rc |-> -1]
        ELSE [m |-> [r.m EXCEPT !.heap[array].data.elements = r.p,
                                !.heap[r.p].data = Put(@, new_count, element)],
              rc |-> 0]))

\* A variant of rjson_array_add that releases the element when it cannot
\* store it.
array_add_freeing(m, array, element) ==
    IF array = 0 \/ m.heap[array].data.type # "RJSON_ARRAY" \/ element = 0
    THEN [m |-> m, rc |-> -1]
    ELSE
    Bind(m.heap[array].data.count + 1, LAMBDA new_count :
    Bind(Realloc(m, "ptrs", m.heap[array].data.elements, new_count), LAMBDA r :
        IF r.p = 0 THEN [m |-> Free(r.m, element), rc |-> -1]
        ELSE [m |-> [r.m EXCEPT !.heap[array].data.elements = r.p,
                                !.heap[r.p].data = Put(@, new_count, element),
                                !.heap[array].data.count = new_count],
              rc |-> 0]))

\* A variant of rjson_array_add that stores the element in the first slot as
\* well.
array_add_twice(m, array, element) ==
    IF array = 0 \/ m.heap[array].data.type # "RJSON_ARRAY" \/ element = 0
    THEN [m |-> m, rc |-> -1]
    ELSE
    Bind(m.heap[array].data.count + 1, LAMBDA new_count :
    Bind(Realloc(m, "ptrs", m.heap[array].data.elements, new_count), LAMBDA r :
        IF r.p = 0 THEN [m |-> r.m, rc |-> -1]
        ELSE [m |-> [r.m EXCEPT !.heap[array].data.elements = r.p,
                                !.heap[r.p].data = Put(Put(@, new_count, element), 1,
                                                       element),
                                !.heap[array].data.count = new_count],
              rc |-> 0]))

rjson_array_add(m, array, element) ==
    IF array = 0 \/ m.heap[array].data.type # "RJSON_ARRAY" \/ element = 0
    THEN [m |-> m, rc |-> -1]
    ELSE
    Bind(m.heap[array].data.count + 1, LAMBDA new_count :
    Bind(Realloc(m, "ptrs", m.heap[array].data.elements, new_count), LAMBDA r :
        IF r.p = 0 THEN [m |-> r.m, rc |-> -1]
        ELSE [m |-> [r.m EXCEPT !.heap[array].data.elements = r.p,
                                !.heap[r.p].data = Put(@, new_count, element),
                                !.heap[array].data.count = new_count],
              rc |-> 0]))

rjson_object_add(m, object, key, value) ==
    IF object = 0 \/ m.heap[object].data.type # "RJSON_OBJECT"
       \/ key = NoString \/ value = 0
    THEN [m |-> m, rc |-> -1]
    ELSE
    Bind(m.heap[object].data.count + 1, LAMBDA new_count :
    Bind(Malloc(m, "chars", Len(key) + 1, key), LAMBDA nk :
        IF nk.p = 0 THEN [m |-> nk.m, rc |-> -1]
        ELSE
        Bind(Realloc(nk.m, "ptrs", nk.m.heap[object].data.keys, new_count), LAMBDA ks :
            IF ks.p = 0 THEN [m |-> Free(ks.m, nk.p), rc |-> -1]
            ELSE
            Bind([ks.m EXCEPT !.heap[object].data.keys = ks.p], LAMBDA m1 :
            Bind(Realloc(m1, "ptrs", m1.heap[object].data.values, new_count), LAMBDA vs :
                IF vs.p = 0
                THEN \* shrink the keys back; the result of realloc is discarded
                     Bind(Realloc(vs.m, "ptrs", vs.m.heap[object].data.keys,
                                  new_count - 1), LAMBDA sh :
                         [m |-> Free(sh.m, nk.p), rc |-> -1])
                ELSE [m |-> [vs.m EXCEPT !.heap[object].data.values = vs.p,
                                         !.heap[ks.p].data = Put(@, new_count, nk.p),
                                         !.heap[vs.p].data = Put(@, new_count, value),
                                         !.heap[object].data.count = new_count],
                      rc |-> 0])))))

\* A variant of rjson_object_get_value that returns the last match.
get_value_last(m, object, key) ==
    IF object = 0 \/ m.heap[object].data.type # "RJSON_OBJECT" \/ key = NoString
    THEN 0
    ELSE LET o == m.heap[object].data
             hits == {i \in 1..o.count :
                        m.heap[m.heap[o.keys].data[i]].data = key}
         IN  IF hits = {} THEN 0
             ELSE m.heap[o.values].data[CHOOSE i \in hits : \A j \in hits : i >= j]

\* strcmp(a, b) == 0 on two C strings.
rjson_object_get_value(m, object, key) ==
    IF object = 0 \/ m.heap[object].data.type # "RJSON_OBJECT" \/ key = NoString
    THEN 0
    ELSE LET o == m.heap[object].data
             hits == {i \in 1..o.count :
                        m.heap[m.heap[o.keys].data[i]].data = key}
         IN  IF hits = {} THEN 0
             ELSE m.heap[o.values].data[CHOOSE i \in hits : \A j \in hits : i <= j]

(***************************************************************************)
(* Decoder: the functions that do not recurse                              *)
(***************************************************************************)
\* A variant of skip_whitespace that skips what isspace() of C skips.
RECURSIVE skip_isspace(_, _)
skip_isspace(t, p) ==
    IF At(t, p) \in {32, 9, 10, 11, 12, 13} THEN skip_isspace(t, p + 1) ELSE p

RECURSIVE skip_whitespace(_, _)
skip_whitespace(t, p) ==
    IF At(t, p) \in {32, 9, 10, 13} THEN skip_whitespace(t, p + 1) ELSE p

\* A variant of Utf8 that writes the code points below 0x100 as one byte.
Utf8Latin(cp) ==
    IF cp < 256 THEN <<cp>>
    ELSE IF cp < 2048 THEN <<192 + (cp \div 64), 128 + (cp % 64)>>
    ELSE IF cp < 65536
    THEN <<224 + (cp \div 4096), 128 + ((cp \div 64) % 64), 128 + (cp % 64)>>
    ELSE <<240 + (cp \div 262144), 128 + ((cp \div 4096) % 64),
           128 + ((cp \div 64) % 64), 128 + (cp % 64)>>

\* A variant of Utf8 that has no four-byte form.
Utf8Three(cp) ==
    IF cp < 128 THEN <<cp>>
    ELSE IF cp < 2048 THEN <<192 + (cp \div 64), 128 + (cp % 64)>>
    ELSE <<224 + ((cp \div 4096) % 16), 128 + ((cp \div 64) % 64), 128 + (cp % 64)>>

\* The UTF-8 encoding of code point cp (rjson.h:357-379).
Utf8(cp) ==
    IF cp < 128 THEN <<cp>>
    ELSE IF cp < 2048 THEN <<192 + (cp \div 64), 128 + (cp % 64)>>
    ELSE IF cp < 65536
    THEN <<224 + (cp \div 4096), 128 + ((cp \div 64) % 64), 128 + (cp % 64)>>
    ELSE <<240 + (cp \div 262144), 128 + ((cp \div 4096) % 64),
           128 + ((cp \div 64) % 64), 128 + (cp % 64)>>

\* Four hexadecimal digits at t[p+1..p+4] as a number, -1 if one is no digit.
Hex4(t, p) ==
    IF \E i \in 1..4 : HexVal(At(t, p + i)) < 0 THEN -1
    ELSE 4096 * HexVal(At(t, p + 1)) + 256 * HexVal(At(t, p + 2))
         + 16 * HexVal(At(t, p + 3)) + HexVal(At(t, p + 4))

\* The index of the last byte the four-digit loop reads, the digits being
\* t[p+1..p+4]: it stops at the first byte that is no digit.
HexReach(t, p) ==
    IF \E i \in 1..4 : HexVal(At(t, p + i)) < 0
    THEN p + (CHOOSE i \in 1..4 : /\ HexVal(At(t, p + i)) < 0
                                  /\ \A j \in 1..(i - 1) : HexVal(At(t, p + j)) >= 0)
    ELSE p + 4

\* The result u of the rest of the loop, index p having been read before.
Seen(u, p) == [u EXCEPT !.far = Max(@, p)]

\* The for loop of unescape_string: p is the read position, d the bytes
\* written so far.  [ok, d, far]: ok is FALSE where the code returns NULL,
\* far is the greatest index the loop read a byte at.
RECURSIVE UnescapeLoop(_, _, _, _)
UnescapeLoop(t, p, in_end, d) ==
    IF p >= in_end THEN [ok |-> TRUE, d |-> d, far |-> 0]
    ELSE IF At(t, p) # 92 THEN Seen(UnescapeLoop(t, p + 1, in_end, Append(d, At(t, p))), p)
    ELSE IF p + 1 >= in_end THEN [ok |-> FALSE, d |-> d, far |-> p]
    ELSE
    LET q == p + 1
        c == At(t, q)
    IN  CASE c = 34  -> Seen(UnescapeLoop(t, q + 1, in_end, Append(d, 34)), q)
          [] c = 92  -> Seen(UnescapeLoop(t, q + 1, in_end, Append(d, 92)), q)
          [] c = 47  -> Seen(UnescapeLoop(t, q + 1, in_end, Append(d, 47)), q)
          [] c = 98  -> Seen(UnescapeLoop(t, q + 1, in_end, Append(d, 8)), q)
          [] c = 102 -> Seen(UnescapeLoop(t, q + 1, in_end, Append(d, 12)), q)
          [] c = 110 -> Seen(UnescapeLoop(t, q + 1, in_end, Append(d, 10)), q)
          [] c = 114 -> Seen(UnescapeLoop(t, q + 1, in_end, Append(d, 13)), q)
          [] c = 116 -> Seen(UnescapeLoop(t, q + 1, in_end, Append(d, 9)), q)
          [] c = 117 ->
               IF in_end - q < 5 THEN [ok |-> FALSE, d |-> d, far |-> q]
               ELSE
               LET hi == Hex4(t, q)
                   q4 == q + 4
                   ahead == hi >= 55296 /\ hi <= 56319 /\ in_end - q4 >= 7
                   low == IF ahead /\ At(t, q4 + 1) = 92 /\ At(t, q4 + 2) = 117
                          THEN Hex4(t, q4 + 2) ELSE -1
                   paired == low >= 56320 /\ low <= 57343
                   cp == IF paired
                         THEN 65536 + ((hi - 55296) * 1024) + (low - 56320)
                         ELSE hi
                   q5 == IF paired THEN q4 + 6 ELSE q4
                   reach == IF hi < 0 THEN HexReach(t, q)
                            ELSE IF ~ahead THEN q4
                            ELSE IF At(t, q4 + 1) # 92 THEN q4 + 1
                            ELSE IF At(t, q4 + 2) # 117 THEN q4 + 2
                            ELSE HexReach(t, q4 + 2)
               IN  IF hi < 0 THEN [ok |-> FALSE, d |-> d, far |-> reach]
                   ELSE IF (cp >= 55296 /\ cp <= 57343) \/ cp = 0
                   THEN [ok |-> FALSE, d |-> d, far |-> reach]
                   ELSE Seen(UnescapeLoop(t, q5 + 1, in_end, d \o Utf8(cp)), reach)
          [] OTHER   -> [ok |-> FALSE, d |-> d, far |-> q]

\* The bytes d written from the start of block p, and a terminator behind
\* them where the loop came to its end: past the block's size, a buffer
\* overflow.
Unescaped(m, p, u) ==
    [m EXCEPT !.faults = IF Len(u.d) + (IF u.ok THEN 1 ELSE 0) > m.heap[p].size
                         THEN @ \cup {"buffer overflow"} ELSE @,
              !.heap[p].data = IF u.ok THEN u.d ELSE @]

\* A variant of unescape_string that allocates no byte for the terminator.
unescape_tight(m, t, in_start, in_end) ==
    Bind(in_end - in_start, LAMBDA max_len :
    Bind(Malloc(m, "chars", max_len, <<>>), LAMBDA o :
        IF o.p = 0 THEN [m |-> o.m, p |-> 0, far |-> 0]
        ELSE Bind(UnescapeLoop(t, in_start, in_end, <<>>), LAMBDA u :
                 IF ~u.ok THEN [m |-> Free(Unescaped(o.m, o.p, u), o.p), p |-> 0,
                                far |-> u.far]
                 ELSE [m |-> Unescaped(o.m, o.p, u), p |-> o.p, far |-> u.far])))

\* unescape_string(in_start, in_end): the new buffer, or NULL.
unescape_string(m, t, in_start, in_end) ==
    Bind(in_end - in_start, LAMBDA max_len :
    Bind(Malloc(m, "chars", max_len + 1, <<>>), LAMBDA o :
        IF o.p = 0 THEN [m |-> o.m, p |-> 0, far |-> 0]
        ELSE Bind(UnescapeLoop(t, in_start, in_end, <<>>), LAMBDA u :
                 IF ~u.ok THEN [m |-> Free(Unescaped(o.m, o.p, u), o.p), p |-> 0,
                                far |-> u.far]
                 ELSE [m |-> Unescaped(o.m, o.p, u), p |-> o.p, far |-> u.far])))

\* A variant of ScanString that does not look at the byte after a backslash.
RECURSIVE ScanStringBlind(_, _)
ScanStringBlind(t, p) ==
    IF At(t, p) = 34 \/ At(t, p) = 0 THEN [ok |-> TRUE, p |-> p]
    ELSE IF At(t, p) < 32 THEN [ok |-> FALSE, p |-> p]
    ELSE IF At(t, p) = 92 THEN ScanStringBlind(t, p + 2)
    ELSE ScanStringBlind(t, p + 1)

\* A variant of ScanString that lets bytes below 0x20 through.
RECURSIVE ScanStringLax(_, _)
ScanStringLax(t, p) ==
    IF At(t, p) = 34 \/ At(t, p) = 0 THEN [ok |-> TRUE, p |-> p]
    ELSE IF At(t, p) = 92
    THEN IF At(t, p + 1) = 0 THEN [ok |-> FALSE, p |-> p + 1]
         ELSE ScanStringLax(t, p + 2)
    ELSE ScanStringLax(t, p + 1)

\* The scanning loop of parse_string from position p: [ok, p]; ok is FALSE
\* where the loop returns NULL.
RECURSIVE ScanString(_, _)
ScanString(t, p) ==
    IF At(t, p) = 34 \/ At(t, p) = 0 THEN [ok |-> TRUE, p |-> p]
    ELSE IF At(t, p) < 32 THEN [ok |-> FALSE, p |-> p]
    ELSE IF At(t, p) = 92
    THEN IF At(t, p + 1) = 0 THEN [ok |-> FALSE, p |-> p + 1]
         ELSE ScanString(t, p + 2)
    ELSE ScanString(t, p + 1)

\* parse_string with the cursor on the opening quote: [m, pos, p].
parse_string(m, t, p0) ==
    Bind(ScanString(t, p0 + 1), LAMBDA sc :
        IF ~sc.ok THEN [m |-> m, pos |-> sc.p, p |-> 0, far |-> sc.p]
        ELSE IF At(t, sc.p) # 34 THEN [m |-> m, pos |-> sc.p, p |-> 0, far |-> sc.p]
        ELSE
        Bind(unescape_string(m, t, p0 + 1, sc.p), LAMBDA u :
        Bind(Max(sc.p, u.far), LAMBDA far :
            IF u.p = 0 THEN [m |-> u.m, pos |-> sc.p + 1, p |-> 0, far |-> far]
            ELSE Bind(create_value(u.m, "RJSON_STRING"), LAMBDA v :
                     IF v.p = 0 THEN [m |-> Free(v.m, u.p), pos |-> sc.p + 1, p |-> 0,
                                      far |-> far]
                     ELSE [m |-> [v.m EXCEPT !.heap[v.p].data.str_val = u.p],
                           pos |-> sc.p + 1, p |-> v.p, far |-> far]))))

\* strncmp(*json, lit, Len(lit)) == 0.
Matches(t, p, lit) == \A i \in 1..Len(lit) : At(t, p + i - 1) = lit[i]

\* The index of the last byte strncmp(*json, lit, Len(lit)) reads: it stops
\* at the first byte that differs, the terminator being one.
Compared(t, p, lit) ==
    IF Matches(t, p, lit) THEN p + Len(lit) - 1
    ELSE p - 1 + (CHOOSE i \in 1..Len(lit) :
                     /\ At(t, p + i - 1) # lit[i]
                     /\ \A j \in 1..(i - 1) : At(t, p + j - 1) = lit[j])

parse_literal(m, t, p) ==
    IF Matches(t, p, B(<<"t", "r", "u", "e">>))
    THEN Bind(create_value(m, "RJSON_BOOL"), LAMBDA v :
             [m |-> IF v.p = 0 THEN v.m
                    ELSE [v.m EXCEPT !.heap[v.p].data.bool_val = 1],
              pos |-> p + 4, p |-> v.p, far |-> p + 3])
    ELSE IF Matches(t, p, B(<<"f", "a", "l", "s", "e">>))
    THEN Bind(create_value(m, "RJSON_BOOL"), LAMBDA v :
             [m |-> v.m, pos |-> p + 5, p |-> v.p, far |-> p + 4])
    ELSE IF Matches(t, p, B(<<"n", "u", "l", "l">>))
    THEN Bind(create_value(m, "RJSON_NULL"), LAMBDA v :
             [m |-> v.m, pos |-> p + 4, p |-> v.p, far |-> p + 3])
    ELSE [m |-> m, pos |-> p, p |-> 0,
          far |-> Max(Compared(t, p, B(<<"t", "r", "u", "e">>)),
                      Max(Compared(t, p, B(<<"f", "a", "l", "s", "e">>)),
                          Compared(t, p, B(<<"n", "u", "l", "l">>))))]

(***************************************************************************)
(* Numbers.  A binary64 is kept as the decimal it was converted from,      *)
(* normalised: (-1)^sign * mant * 10^exp with mant not a multiple of 10.   *)
(* Decimals of up to 15 significant digits convert to distinct doubles, so *)
(* equal doubles are equal records.  cls is "fin", "inf" or "nan".         *)
(***************************************************************************)
RECURSIVE SkipDigits(_, _)
SkipDigits(t, p) == IF isdigit(At(t, p)) THEN SkipDigits(t, p + 1) ELSE p

\* The number the digits t[p..q-1] spell (0 for none).
RECURSIVE DigitsVal(_, _, _)
DigitsVal(t, p, q) ==
    IF p >= q THEN 0 ELSE DigitsVal(t, p, q - 1) * 10 + (t[q - 1] - 48)

RECURSIVE Pow10(_)
Pow10(k) == IF k <= 0 THEN 1 ELSE 10 * Pow10(k - 1)

RECURSIVE NDigits(_)
NDigits(n) == IF n < 10 THEN 1 ELSE 1 + NDigits(n \div 10)

RECURSIVE Normalise(_, _, _)
Normalise(sign, mant, exp) ==
    IF mant = 0 THEN [cls |-> "fin", sign |-> sign, mant |-> 0, exp |-> 0]
    ELSE IF mant % 10 = 0 THEN Normalise(sign, mant \div 10, exp + 1)
    ELSE [cls |-> "fin", sign |-> sign, mant |-> mant, exp |-> exp]

\* The decimal exponent of the leading digit of a non-zero number.
E10(num) == num.exp + NDigits(num.mant) - 1

\* The leading digits of the mantissa as a nine-digit number.
Lead9(num) == num.mant * Pow10(9 - NDigits(num.mant))

\* DBL_MAX is 1.7976931348623157e308, DBL_MIN 2.2250738585072014e-308; the
\* smallest subnormal is 4.94e-324 and half of it rounds to zero.
Overflows(num) ==
    num.mant # 0 /\ (E10(num) > 308 \/ (E10(num) = 308 /\ Lead9(num) > 179769313))

Underflows(num) ==
    num.mant # 0 /\ (E10(num) < -308 \/ (E10(num) = -308 /\ Lead9(num) <= 222507385))

RoundsToZero(num) ==
    num.mant # 0 /\ (E10(num) < -324 \/ (E10(num) = -324 /\ Lead9(num) <= 247032822))

\* A variant of ScanNumber that takes digits after a leading zero.
ScanNumberLax(t, p0) ==
    LET p1 == IF At(t, p0) = 45 THEN p0 + 1 ELSE p0
        p2 == SkipDigits(t, p1)
        p3 == IF At(t, p2) = 46 THEN SkipDigits(t, p2 + 1) ELSE p2
        p4 == IF At(t, p3) \in {101, 69}
              THEN IF At(t, p3 + 1) \in {43, 45} THEN p3 + 2 ELSE p3 + 1
              ELSE p3
        p5 == IF At(t, p3) \in {101, 69} THEN SkipDigits(t, p4) ELSE p3
    IN  IF ~isdigit(At(t, p1)) THEN [ok |-> FALSE, p |-> p1]
        ELSE IF At(t, p2) = 46 /\ ~isdigit(At(t, p2 + 1))
        THEN [ok |-> FALSE, p |-> p2 + 1]
        ELSE IF At(t, p3) \in {101, 69} /\ ~isdigit(At(t, p4))
        THEN [ok |-> FALSE, p |-> p4]
        ELSE [ok |-> TRUE, p |-> p5]

\* The grammar check of parse_number from position p (rjson.h:448-499):
\* [ok, p] with p the cursor where the check stopped.
ScanNumber(t, p0) ==
    LET p1 == IF At(t, p0) = 45 THEN p0 + 1 ELSE p0
        p2 == IF At(t, p1) = 48 THEN p1 + 1 ELSE SkipDigits(t, p1)
        p3 == IF At(t, p2) = 46 THEN SkipDigits(t, p2 + 1) ELSE p2
        p4 == IF At(t, p3) \in {101, 69}
              THEN IF At(t, p3 + 1) \in {43, 45} THEN p3 + 2 ELSE p3 + 1
              ELSE p3
        p5 == IF At(t, p3) \in {101, 69} THEN SkipDigits(t, p4) ELSE p3
    IN  IF At(t, p1) = 48 /\ isdigit(At(t, p2)) THEN [ok |-> FALSE, p |-> p2]
        ELSE IF ~isdigit(At(t, p1)) THEN [ok |-> FALSE, p |-> p1]
        ELSE IF At(t, p2) = 46 /\ ~isdigit(At(t, p2 + 1))
        THEN [ok |-> FALSE, p |-> p2 + 1]
        ELSE IF At(t, p3) \in {101, 69} /\ ~isdigit(At(t, p4))
        THEN [ok |-> FALSE, p |-> p4]
        ELSE [ok |-> TRUE, p |-> p5]

\* The decimal the span t[start..json-1] spells, the span being a number of
\* the grammar above.
DecimalOf(t, start, json) ==
    LET neg == At(t, start) = 45
        i0 == IF neg THEN start + 1 ELSE start
        i1 == SkipDigits(t, i0)
        hasFrac == i1 < json /\ At(t, i1) = 46
        f1 == IF hasFrac THEN SkipDigits(t, i1 + 1) ELSE i1
        nfrac == IF hasFrac THEN f1 - i1 - 1 ELSE 0
        hasExp == f1 < json
        eneg == hasExp /\ At(t, f1 + 1) = 45
        x0 == IF hasExp /\ At(t, f1 + 1) \in {43, 45} THEN f1 + 2 ELSE f1 + 1
        ex == IF hasExp THEN DigitsVal(t, x0, json) ELSE 0
        mant == DigitsVal(t, i0, i1) * Pow10(nfrac)
                + (IF hasFrac THEN DigitsVal(t, i1 + 1, f1) ELSE 0)
    IN  Normalise(IF neg THEN 1 ELSE 0, mant, (IF eneg THEN 0 - ex ELSE ex) - nfrac)

RECURSIVE SkipHex(_, _)
SkipHex(t, p) == IF HexVal(At(t, p)) >= 0 THEN SkipHex(t, p + 1) ELSE p

\* strtod in the "C" locale has its own grammar: after a span of the JSON
\* grammar it reads on only when the span is 0 or -0 and a hexadecimal
\* constant follows (0x1F).
IsHex(t, start, json) ==
    /\ At(t, json - 1) = 48
    /\ json - start <= 2
    /\ At(t, json) \in {120, 88}
    /\ HexVal(At(t, json + 1)) >= 0

\* strtod(start, &end) on the input: [num, end, erange].  Overflow returns
\* HUGE_VAL with errno ERANGE; whether underflow sets ERANGE is
\* implementation-defined (env.underflowErange).
strtod(t, start, json) ==
    LET d == DecimalOf(t, start, json)
    IN  IF IsHex(t, start, json)
        THEN [num |-> [d EXCEPT !.mant = 1], end |-> SkipHex(t, json + 1),
              erange |-> FALSE]
        ELSE IF Overflows(d)
        THEN [num |-> [d EXCEPT !.cls = "inf", !.mant = 0, !.exp = 0],
              end |-> json, erange |-> TRUE]
        ELSE IF Underflows(d)
        THEN [num |-> IF RoundsToZero(d) THEN [d EXCEPT !.mant = 0, !.exp = 0]
                      ELSE d,
              end |-> json, erange |-> env.underflowErange]
        ELSE [num |-> d, end |-> json, erange |-> FALSE]

isfinite(num) == num.cls = "fin"

\* The failsafe of parse_number (rjson.h:518-543): when strtod stopped
\* elsewhere than the grammar check, a zero-terminated copy of the span is
\* converted again.  [m, ok, num].
Failsafe(m, t, start, json, c1) ==
    IF c1.end = json THEN [m |-> m, ok |-> TRUE, num |-> c1.num]
    ELSE Bind(Malloc(m, "chars", json - start + 1, SubSeq(t, start, json - 1)),
              LAMBDA tmp :
                 IF tmp.p = 0 THEN [m |-> tmp.m, ok |-> FALSE, num |-> c1.num]
                 ELSE [m |-> Free(tmp.m, tmp.p), ok |-> TRUE,
                       num |-> DecimalOf(t, start, json)])

\* parse_number with the cursor on '-' or a digit: [m, pos, p].
\* far: the grammar check reads the byte it stops at, strtod the byte it
\* stops at.
parse_number(m, t, start) ==
    Bind(ScanNumber(t, start), LAMBDA sc :
        IF ~sc.ok THEN [m |-> m, pos |-> sc.p, p |-> 0, far |-> sc.p]
        ELSE
        Bind(strtod(t, start, sc.p), LAMBDA c1 :
        Bind(Max(sc.p, c1.end), LAMBDA far :
            IF c1.erange \/ ~isfinite(c1.num)
            THEN [m |-> m, pos |-> sc.p, p |-> 0, far |-> far]
            ELSE
            Bind(Failsafe(m, t, start, sc.p, c1), LAMBDA fs :
                IF ~fs.ok THEN [m |-> fs.m, pos |-> sc.p, p |-> 0, far |-> far]
                ELSE Bind(create_value(fs.m, "RJSON_NUMBER"), LAMBDA v :
                         IF v.p = 0 THEN [m |-> v.m, pos |-> sc.p, p |-> 0, far |-> far]
                         ELSE [m |-> [v.m EXCEPT !.heap[v.p].data.num_val = fs.num],
                               pos |-> sc.p, p |-> v.p, far |-> far])))))

(***************************************************************************)
(* Encoder: the byte buffer and the functions that do not recurse          *)
(***************************************************************************)
\* The block of a struct strbuf holds the bytes the code has written, the
\* terminator included; what lies behind them is indeterminate.
\* sb->buffer[0] = '\0';
strbuf_init(m, initial_capacity) ==
    Bind(Malloc(m, "chars", initial_capacity, <<0>>), LAMBDA r :
        IF r.p = 0 THEN [m |-> r.m, sb |-> [buffer |-> 0, length |-> 0, capacity |-> 0],
                         rc |-> -1]
        ELSE [m |-> r.m,
              sb |-> [buffer |-> r.p, length |-> 0, capacity |-> initial_capacity],
              rc |-> 0])

\* A variant of GrowTo that leaves no room for the terminator.
RECURSIVE GrowToShort(_, _)
GrowToShort(new_capacity, need) ==
    IF new_capacity < need - 1 THEN GrowToShort(new_capacity * 2, need) ELSE new_capacity

RECURSIVE GrowTo(_, _)
GrowTo(new_capacity, need) ==
    IF new_capacity < need THEN GrowTo(new_capacity * 2, need) ELSE new_capacity

\* memcpy(buffer + length, data, len); buffer[length + len] = '\0': the
\* block's bytes afterwards, and the heap with them written (past the end of
\* the block: a buffer overflow).
Written(m, p, length, data) ==
    Bind(SubSeq(m.heap[p].data, 1, length) \o data \o <<0>>, LAMBDA bytes :
        [m EXCEPT !.heap[p].data = bytes,
                  !.faults = IF Len(bytes) > m.heap[p].size
                             THEN @ \cup {"buffer overflow"} ELSE @])

\* strbuf_append(sb, data, len): [m, sb, rc].
strbuf_append(m, b, data) ==
    IF b.length + Len(data) + 1 > b.capacity
    THEN Bind(GrowTo(IF b.capacity = 0 THEN 64 ELSE b.capacity * 2,
                     b.length + Len(data) + 1), LAMBDA new_capacity :
         Bind(Realloc(m, "chars", b.buffer, new_capacity), LAMBDA r :
             IF r.p = 0 THEN [m |-> r.m, sb |-> b, rc |-> -1]
             ELSE [m |-> Written(r.m, r.p, b.length, data),
                   sb |-> [buffer |-> r.p, length |-> b.length + Len(data),
                           capacity |-> new_capacity],
                   rc |-> 0]))
    ELSE [m |-> Written(m, b.buffer, b.length, data),
          sb |-> [b EXCEPT !.length = b.length + Len(data)],
          rc |-> 0]

HexDigit(v) == IF v < 10 THEN 48 + v ELSE 97 + v - 10

\* The replacement escape_string picks for byte c, <<>> for none.
Replacement(c) ==
    CASE c = 34 -> <<92, 34>>
      [] c = 92 -> <<92, 92>>
      [] c = 8  -> <<92, 98>>
      [] c = 12 -> <<92, 102>>
      [] c = 10 -> <<92, 110>>
      [] c = 13 -> <<92, 114>>
      [] c = 9  -> <<92, 116>>
      [] OTHER  -> IF c < 32
                   THEN <<92, 117, 48, 48, HexDigit(c \div 16), HexDigit(c % 16)>>
                   ELSE <<>>

\* The bytes of `in` from start up to p, not yet written: appended when there
\* are any.
Chunk(m, b, in, p, start) ==
    IF p > start THEN strbuf_append(m, b, SubSeq(in, start, p - 1))
    ELSE [m |-> m, sb |-> b, rc |-> 0]

\* The first position from p on whose byte has a replacement, Len(in) + 1 if
\* there is none: where the while loop of escape_string next does more than
\* p++.
NextReplaced(in, p) ==
    LET S == {q \in p..Len(in) : Replacement(in[q]) # <<>>}
    IN  IF S = {} THEN Len(in) + 1 ELSE CHOOSE q \in S : \A r \in S : q <= r

\* The while loop of escape_string and what follows it: p is the read
\* position in `in`, start the beginning of the pending chunk.  The result of
\* appending the closing quote is not looked at.
RECURSIVE EscapeLoop(_, _, _, _, _)
EscapeLoop(m, b, in, p0, start) ==
    Bind(NextReplaced(in, p0), LAMBDA p :
    IF p > Len(in)
    THEN Bind(Chunk(m, b, in, p, start), LAMBDA a :
             IF a.rc # 0 THEN a
             ELSE Bind(strbuf_append(a.m, a.sb, <<34>>), LAMBDA q :
                      [m |-> q.m, sb |-> q.sb, rc |-> 0]))
    ELSE Bind(Chunk(m, b, in, p, start), LAMBDA a :
             IF a.rc # 0 THEN a
             ELSE Bind(strbuf_append(a.m, a.sb, Replacement(in[p])), LAMBDA r :
                      IF r.rc # 0 THEN r
                      ELSE Bind(p + 1, LAMBDA p1 :
                               EscapeLoop(r.m, r.sb, in, p1, p1)))))

\* escape_string(in, sb): the result of appending the opening quote is not
\* looked at either.
escape_string(m, b, in) ==
    Bind(strbuf_append(m, b, <<34>>), LAMBDA q : EscapeLoop(q.m, q.sb, in, 1, 1))

RECURSIVE DigitsOf(_)
DigitsOf(n) == IF n < 10 THEN <<48 + n>> ELSE Append(DigitsOf(n \div 10), 48 + (n % 10))

Zeros(k) == [i \in 1..k |-> 48]

\* snprintf("%.17g") of a finite double that its decimal denotes exactly:
\* scientific notation when the exponent is below -4 or at least 17, trailing
\* zeros removed, at least two exponent digits.
FormatG17(num) ==
    LET ds == DigitsOf(num.mant)
        D == Len(ds)
        X == num.exp + D - 1
        sgn == IF num.sign = 1 THEN <<45>> ELSE <<>>
        absX == IF X < 0 THEN 0 - X ELSE X
    IN  IF num.mant = 0 THEN sgn \o <<48>>
        ELSE IF X < -4 \/ X >= 17
        THEN sgn \o <<ds[1]>> \o (IF D > 1 THEN <<46>> \o SubSeq(ds, 2, D) ELSE <<>>)
             \o <<101, IF X < 0 THEN 45 ELSE 43>>
             \o (IF absX < 10 THEN <<48>> ELSE <<>>) \o DigitsOf(absX)
        ELSE IF num.exp >= 0 THEN sgn \o ds \o Zeros(num.exp)
        ELSE IF X >= 0
        THEN sgn \o SubSeq(ds, 1, D + num.exp) \o <<46>> \o SubSeq(ds, D + num.exp + 1, D)
        ELSE sgn \o <<48, 46>> \o Zeros(0 - (D + num.exp)) \o ds

serialize_number(m, b, num) ==
    IF ~isfinite(num) THEN [m |-> m, sb |-> b, rc |-> -1]
    ELSE strbuf_append(m, b, FormatG17(num))

(***************************************************************************)
(* Trees as values, for comparing and describing them: the nodes in the    *)
(* order the code visits them, each with the number of its children (an    *)
(* object's children are its keys, each followed by the key's value), and  *)
(* h, the depth of the deepest node below the root (0 for a scalar or an   *)
(* empty container).                                                       *)
(***************************************************************************)
Node(type, b, num, str, n) == [type |-> type, b |-> b, num |-> num, s |-> str, n |-> n]

\* A scalar.
AV(type, b, num, str) == [nodes |-> <<Node(type, b, num, str, 0)>>, h |-> 0]

Height(elems) ==
    IF elems = <<>> THEN 0
    ELSE 1 + (CHOOSE h \in {elems[i].h : i \in DOMAIN elems} :
                 \A i \in DOMAIN elems : elems[i].h <= h)

\* The nodes of the trees elems, one tree after the other.
RECURSIVE NodesOf(_)
NodesOf(elems) ==
    IF elems = <<>> THEN <<>>
    ELSE NodesOf(SubSeq(elems, 1, Len(elems) - 1)) \o elems[Len(elems)].nodes

AVArray(elems) ==
    [nodes |-> <<Node("RJSON_ARRAY", 0, NumZero, <<>>, Len(elems))>> \o NodesOf(elems),
     h |-> Height(elems)]

\* Key i as a tree, for the place before its value.
AVKey(key) == [nodes |-> <<Node("key", 0, NumZero, key, 0)>>, h |-> 0]

AVObject(keys, elems) ==
    [nodes |-> <<Node("RJSON_OBJECT", 0, NumZero, <<>>, Len(elems))>>
               \o NodesOf([i \in 1..(2 * Len(elems)) |->
                              IF i % 2 = 1 THEN AVKey(keys[(i + 1) \div 2])
                              ELSE elems[i \div 2]]),
     h |-> Height(elems)]

\* The C string block p holds.
Str(m, p) ==
    LET d == m.heap[p].data
        z == {i \in DOMAIN d : d[i] = 0}
    IN  IF z = {} THEN d
        ELSE SubSeq(d, 1, (CHOOSE i \in z : \A j \in z : i <= j) - 1)

\* The tree rooted at node p, read through the pointers.
RECURSIVE TreeOf(_, _)
TreeOf(m, p) ==
    LET v == m.heap[p].data
    IN  CASE v.type = "RJSON_NULL"   -> AV(v.type, 0, NumZero, <<>>)
          [] v.type = "RJSON_BOOL"   -> AV(v.type, v.bool_val, NumZero, <<>>)
          [] v.type = "RJSON_NUMBER" -> AV(v.type, 0, v.num_val, <<>>)
          [] v.type = "RJSON_STRING" -> AV(v.type, 0, NumZero, Str(m, v.str_val))
          [] v.type = "RJSON_ARRAY"  ->
               AVArray([i \in 1..v.count |-> TreeOf(m, m.heap[v.elements].data[i])])
          [] v.type = "RJSON_OBJECT" ->
               AVObject([i \in 1..v.count |-> Str(m, m.heap[v.keys].data[i])],
                        [i \in 1..v.count |-> TreeOf(m, m.heap[v.values].data[i])])

(***************************************************************************)
(* The call stack.  A call of the library runs on a machine s: the heap,   *)
(* the stack of activations (top at the end), the value the activation     *)
(* that finished last returned, the input and the cursor, the string       *)
(* buffer, the out parameters, and how deep the activations went.  Each    *)
(* recursive function below takes its running activation one step on.      *)
(***************************************************************************)
RJSON_MAX_DEPTH == 512

\* out_string and out_length say whether the pointer arguments of
\* rjson_serialize are non-NULL.
Frame(fn, pc, node, depth) ==
    [fn |-> fn, pc |-> pc, node |-> node, depth |-> depth, i |-> 0, key |-> 0,
     keys |-> <<>>, val |-> <<>>, out_string |-> TRUE, out_length |-> TRUE]

Top(s) == s.stack[Len(s.stack)]

Pop(s) == SubSeq(s.stack, 1, Len(s.stack) - 1)

\* A call of rjson_free(node), to run next.
CallFree(node) == Frame("rjson_free", "entry", node, 0)

\* `return NULL` once the frames pushed above this one have run.
RetNull(f) == [f EXCEPT !.pc = "ret_null"]

\* called: the greatest depth argument an activation was given; passed: the
\* greatest depth argument of an activation that went on after its depth
\* guard (-1: none).
\* far: the greatest index of the input the decoder's cursor stood at or a
\* byte was read at (0: none).
NoDepth == [called |-> -1, passed |-> -1, far |-> 0]

\* The running activation has gone past its depth guard.
Passed(s) == [s EXCEPT !.deep.passed = Max(@, Top(s).depth)]

(***************************************************************************)
(* Decoder: parse_value, parse_array, parse_object, rjson_parse            *)
(***************************************************************************)
\* The cases of parse_value that return at once: [m, pos, p].
ParseScalar(m, t, p, c) ==
    IF c = 34 THEN parse_string(m, t, p)
    ELSE IF c \in {116, 102, 110} THEN parse_literal(m, t, p)
    ELSE IF c = 45 \/ isdigit(c) THEN parse_number(m, t, p)
    ELSE [m |-> m, pos |-> p, p |-> 0, far |-> p]

\* parse_value(json, depth): the scalars return at once; for '[' and '{' the
\* activation becomes the one of parse_array or parse_object (a tail call).
parse_value(s) ==
    Bind(skip_whitespace(s.text, s.pos), LAMBDA p :
    Bind(At(s.text, p), LAMBDA c :
       IF c = 91
       THEN [s EXCEPT !.stack = Append(Pop(s), Frame("parse_array", "entry", 0,
                                                     Top(s).depth)),
                      !.pos = p]
       ELSE IF c = 123
       THEN [s EXCEPT !.stack = Append(Pop(s), Frame("parse_object", "entry", 0,
                                                     Top(s).depth)),
                      !.pos = p]
       ELSE Bind(ParseScalar(s.mem, s.text, p, c), LAMBDA r :
               [s EXCEPT !.stack = Pop(s),
                         !.mem = r.m,
                         !.pos = r.pos,
                         !.deep.far = Max(@, r.far),
                         !.ret = r.p,
                         !.retv = IF r.p = 0 THEN s.retv ELSE TreeOf(r.m, r.p)])))

\* A variant of the guard that lets one more level through.
ArrayTooDeepLate(depth) == depth > RJSON_MAX_DEPTH

\* The guard at the head of parse_array.
ArrayTooDeep(depth) == depth >= RJSON_MAX_DEPTH

\* A variant of ArrayNext that takes a comma before the closing bracket.
ArrayNextLax(s, f, elems) ==
    Bind(skip_whitespace(s.text, s.pos), LAMBDA p :
    Bind(skip_whitespace(s.text, p + 1), LAMBDA p1 :
       IF At(s.text, p) = 93 \/ (At(s.text, p) = 44 /\ At(s.text, p1) = 93)
       THEN [s EXCEPT !.pos = IF At(s.text, p) = 93 THEN p + 1 ELSE p1 + 1,
                      !.stack = Pop(s),
                      !.ret = f.node,
                      !.retv = AVArray(elems)]
       ELSE IF At(s.text, p) # 44
       THEN [s EXCEPT !.pos = p,
                      !.stack = Pop(s) \o <<RetNull(f), CallFree(f.node)>>]
       ELSE [s EXCEPT !.pos = p + 1,
                      !.stack = Pop(s) \o <<[f EXCEPT !.pc = "element", !.val = elems],
                                            Frame("parse_value", "entry", 0,
                                                  f.depth + 1)>>]))

\* A variant of ArrayNext that leaves the cursor on the comma.
ArrayNextStuck(s, f, elems) ==
    Bind(skip_whitespace(s.text, s.pos), LAMBDA p :
       IF At(s.text, p) = 93
       THEN [s EXCEPT !.pos = p + 1,
                      !.stack = Pop(s),
                      !.ret = f.node,
                      !.retv = AVArray(elems)]
       ELSE IF At(s.text, p) # 44
       THEN [s EXCEPT !.pos = p,
                      !.stack = Pop(s) \o <<RetNull(f), CallFree(f.node)>>]
       ELSE [s EXCEPT !.pos = p,
                      !.stack = Pop(s) \o <<[f EXCEPT !.pc = "element", !.val = elems],
                                            Frame("parse_value", "entry", 0,
                                                  f.depth + 1)>>])

\* parse_array after its element was stored: the separator.
ArrayNext(s, f, elems) ==
    Bind(skip_whitespace(s.text, s.pos), LAMBDA p :
       IF At(s.text, p) = 93
       THEN [s EXCEPT !.pos = p + 1,
                      !.stack = Pop(s),
                      !.ret = f.node,
                      !.retv = AVArray(elems)]
       ELSE IF At(s.text, p) # 44
       THEN [s EXCEPT !.pos = p,
                      !.stack = Pop(s) \o <<RetNull(f), CallFree(f.node)>>]
       ELSE [s EXCEPT !.pos = p + 1,
                      !.stack = Pop(s) \o <<[f EXCEPT !.pc = "element", !.val = elems],
                                            Frame("parse_value", "entry", 0,
                                                  f.depth + 1)>>])

\* parse_array from its head to the first call of parse_value.
ArrayEntry(s, f) ==
    IF ArrayTooDeep(f.depth)
    THEN [s EXCEPT !.stack = Pop(s), !.ret = 0]
    ELSE Bind(rjson_array_new(s.mem), LAMBDA a :
         Bind(skip_whitespace(s.text, s.pos + 1), LAMBDA p1 :
         Bind([Passed(s) EXCEPT !.mem = a.m], LAMBDA s1 :
            IF a.p = 0
            THEN [s1 EXCEPT !.stack = Pop(s), !.ret = 0, !.pos = s.pos + 1]
            ELSE IF At(s.text, p1) = 93
            THEN [s1 EXCEPT !.stack = Pop(s),
                            !.ret = a.p,
                            !.retv = AVArray(<<>>),
                            !.pos = p1 + 1]
            ELSE [s1 EXCEPT !.stack = Pop(s) \o
                                <<[f EXCEPT !.pc = "element", !.node = a.p],
                                  Frame("parse_value", "entry", 0, f.depth + 1)>>,
                            !.pos = p1])))

\* parse_array when parse_value has returned the element.
ArrayElement(s, f) ==
    IF s.ret = 0
    THEN [s EXCEPT !.stack = Pop(s) \o <<RetNull(f), CallFree(f.node)>>]
    ELSE Bind(rjson_array_add(s.mem, f.node, s.ret), LAMBDA ad :
            IF ad.rc # 0
            THEN [s EXCEPT !.mem = ad.m,
                           !.stack = Pop(s) \o <<RetNull(f), CallFree(f.node),
                                                 CallFree(s.ret)>>]
            ELSE ArrayNext([s EXCEPT !.mem = ad.m], f, Append(f.val, s.retv)))

parse_array(s) ==
    Bind(Top(s), LAMBDA f :
       CASE f.pc = "entry" -> ArrayEntry(s, f)
         [] f.pc = "element" -> ArrayElement(s, f)
         [] f.pc = "ret_null" -> [s EXCEPT !.stack = Pop(s), !.ret = 0])

\* The guard at the head of parse_object.
ObjectTooDeep(depth) == depth >= RJSON_MAX_DEPTH

\* One round of the loop of parse_object, from the top of the loop body to the
\* call of parse_value: the key and the colon.
ObjectMember(s, f, p0) ==
    Bind(skip_whitespace(s.text, p0), LAMBDA p :
       IF At(s.text, p) # 34
       THEN [s EXCEPT !.pos = p,
                      !.stack = Pop(s) \o <<RetNull(f), CallFree(f.node)>>]
       ELSE Bind(parse_string(s.mem, s.text, p), LAMBDA k :
            Bind(skip_whitespace(s.text, k.pos), LAMBDA p2 :
               IF k.p = 0
               THEN [s EXCEPT !.mem = k.m,
                              !.pos = k.pos,
                              !.deep.far = Max(@, k.far),
                              !.stack = Pop(s) \o <<RetNull(f), CallFree(f.node)>>]
               ELSE IF At(s.text, p2) # 58
               THEN [s EXCEPT !.mem = k.m,
                              !.pos = p2,
                              !.deep.far = Max(@, k.far),
                              !.stack = Pop(s) \o <<RetNull(f), CallFree(f.node),
                                                    CallFree(k.p)>>]
               ELSE [s EXCEPT !.mem = k.m,
                              !.pos = p2 + 1,
                              !.deep.far = Max(@, k.far),
                              !.stack = Pop(s) \o
                                  <<[f EXCEPT !.pc = "value", !.key = k.p],
                                    Frame("parse_value", "entry", 0, f.depth + 1)>>])))

\* parse_object from its head to the first call of parse_value.
ObjectEntry(s, f) ==
    IF ObjectTooDeep(f.depth)
    THEN [s EXCEPT !.stack = Pop(s), !.ret = 0]
    ELSE Bind(rjson_object_new(s.mem), LAMBDA o :
         Bind(skip_whitespace(s.text, s.pos + 1), LAMBDA p1 :
         Bind([Passed(s) EXCEPT !.mem = o.m], LAMBDA s1 :
            IF o.p = 0
            THEN [s1 EXCEPT !.stack = Pop(s), !.ret = 0, !.pos = s.pos + 1]
            ELSE IF At(s.text, p1) = 125
            THEN [s1 EXCEPT !.stack = Pop(s),
                            !.ret = o.p,
                            !.retv = AVObject(<<>>, <<>>),
                            !.pos = p1 + 1]
            ELSE ObjectMember(s1, [f EXCEPT !.node = o.p], p1))))

\* A variant of ObjectValue that frees the key value node without its string.
ObjectValueKeepsKey(s, f) ==
    IF s.ret = 0
    THEN [s EXCEPT !.stack = Pop(s) \o <<RetNull(f), CallFree(f.node),
                                         CallFree(f.key)>>]
    ELSE Bind(Str(s.mem, s.mem.heap[f.key].data.str_val), LAMBDA key :
         Bind(rjson_object_add(s.mem, f.node, key, s.ret), LAMBDA ad :
            IF ad.rc # 0
            THEN [s EXCEPT !.mem = ad.m,
                           !.stack = Pop(s) \o <<RetNull(f), CallFree(f.node),
                                                 CallFree(s.ret), CallFree(f.key)>>]
            ELSE \* free(key_val);
                 Bind(Free(ad.m, f.key), LAMBDA m2 :
                 Bind(skip_whitespace(s.text, s.pos), LAMBDA p3 :
                 Bind([f EXCEPT !.keys = Append(f.keys, key),
                                !.val = Append(f.val, s.retv)], LAMBDA g :
                    IF At(s.text, p3) = 125
                    THEN [s EXCEPT !.stack = Pop(s),
                                   !.ret = f.node,
                                   !.retv = AVObject(g.keys, g.val),
                                   !.mem = m2,
                                   !.pos = p3 + 1]
                    ELSE IF At(s.text, p3) # 44
                    THEN [s EXCEPT !.stack = Pop(s) \o <<RetNull(f), CallFree(f.node)>>,
                                   !.mem = m2,
                                   !.pos = p3]
                    ELSE ObjectMember([s EXCEPT !.mem = m2], g, p3 + 1))))))

\* parse_object when parse_value has returned the member's value.
ObjectValue(s, f) ==
    IF s.ret = 0
    THEN [s EXCEPT !.stack = Pop(s) \o <<RetNull(f), CallFree(f.node),
                                         CallFree(f.key)>>]
    ELSE Bind(Str(s.mem, s.mem.heap[f.key].data.str_val), LAMBDA key :
         Bind(rjson_object_add(s.mem, f.node, key, s.ret), LAMBDA ad :
            IF ad.rc # 0
            THEN [s EXCEPT !.mem = ad.m,
                           !.stack = Pop(s) \o <<RetNull(f), CallFree(f.node),
                                                 CallFree(s.ret), CallFree(f.key)>>]
            ELSE \* free(key_val->as.str_val); free(key_val);
                 Bind(Free(Free(ad.m, ad.m.heap[f.key].data.str_val), f.key), LAMBDA m2 :
                 Bind(skip_whitespace(s.text, s.pos), LAMBDA p3 :
                 Bind([f EXCEPT !.keys = Append(f.keys, key),
                                !.val = Append(f.val, s.retv)], LAMBDA g :
                    IF At(s.text, p3) = 125
                    THEN [s EXCEPT !.stack = Pop(s),
                                   !.ret = f.node,
                                   !.retv = AVObject(g.keys, g.val),
                                   !.mem = m2,
                                   !.pos = p3 + 1]
                    ELSE IF At(s.text, p3) # 44
                    THEN [s EXCEPT !.stack = Pop(s) \o <<RetNull(f), CallFree(f.node)>>,
                                   !.mem = m2,
                                   !.pos = p3]
                    ELSE ObjectMember([s EXCEPT !.mem = m2], g, p3 + 1))))))

parse_object(s) ==
    Bind(Top(s), LAMBDA f :
       CASE f.pc = "entry" -> ObjectEntry(s, f)
         [] f.pc = "value" -> ObjectValue(s, f)
         [] f.pc = "ret_null" -> [s EXCEPT !.stack = Pop(s), !.ret = 0])

\* A variant of rjson_parse that does not look at what follows the value.
parse_ignoring_rest(s) ==
    Bind(Top(s), LAMBDA f :
    Bind(skip_whitespace(s.text, s.pos), LAMBDA p :
       CASE f.pc = "entry" ->
              IF s.text = NoString
              THEN [s EXCEPT !.stack = Pop(s), !.ret = 0]
              ELSE [s EXCEPT !.pos = IF Matches(s.text, 1, <<239, 187, 191>>)
                                     THEN 4 ELSE 1,
                             !.stack = Pop(s) \o <<[f EXCEPT !.pc = "result"],
                                                   Frame("parse_value", "entry", 0, 0)>>]
         [] f.pc = "result" -> [s EXCEPT !.stack = Pop(s), !.pos = p]))

\* rjson_parse(json_string), json_string being s.text.
rjson_parse(s) ==
    Bind(Top(s), LAMBDA f :
    Bind(skip_whitespace(s.text, s.pos), LAMBDA p :
       CASE f.pc = "entry" ->
              IF s.text = NoString
              THEN [s EXCEPT !.stack = Pop(s), !.ret = 0]
              ELSE [s EXCEPT !.pos = IF Matches(s.text, 1, <<239, 187, 191>>)
                                     THEN 4 ELSE 1,
                             !.deep.far = Max(@, Compared(s.text, 1, <<239, 187, 191>>)),
                             !.stack = Pop(s) \o <<[f EXCEPT !.pc = "result"],
                                                   Frame("parse_value", "entry", 0, 0)>>]
         [] f.pc = "result" ->
              IF s.ret = 0
              THEN [s EXCEPT !.stack = Pop(s)]
              ELSE IF At(s.text, p) # 0
              THEN [s EXCEPT !.stack = Pop(s) \o <<RetNull(f), CallFree(s.ret)>>,
                             !.pos = p]
              ELSE [s EXCEPT !.stack = Pop(s), !.pos = p]
         [] f.pc = "ret_null" -> [s EXCEPT !.stack = Pop(s), !.ret = 0]))

(***************************************************************************)
(* rjson_free                                                              *)
(***************************************************************************)
\* Reading through a pointer to a freed block.
ReadFault(m, p) ==
    IF p > 0 /\ ~m.heap[p].live
    THEN [m EXCEPT !.faults = @ \cup {"use after free"}] ELSE m

\* Slot i of the pointer array p (-1: the slot holds no pointer the program
\* stored).
Slot(m, p, i) ==
    IF p = 0 \/ i > Len(m.heap[p].data) THEN -1 ELSE m.heap[p].data[i]

\* free(q) for a pointer read from an array slot.
FreeSlot(m, q) ==
    IF q < 0 THEN [m EXCEPT !.faults = @ \cup {"uninitialised pointer"}]
    ELSE Free(m, q)

\* One round of the loop of rjson_free over an array, up to the recursive call.
FreeElement(m, v, i) == FreeSlot(ReadFault(m, v.elements), Slot(m, v.elements, i))

\* A variant of FreeMember that leaves the key alone.
FreeMemberValueOnly(m, v, i) ==
    IF Slot(m, v.values, i) < 0
    THEN FreeSlot(ReadFault(m, v.values), -1)
    ELSE ReadFault(m, v.values)

\* One round of the loop over an object: free(keys[i]), then the recursive
\* call on values[i].
FreeMember(m, v, i) ==
    Bind(FreeSlot(ReadFault(m, v.keys), Slot(m, v.keys, i)), LAMBDA m1 :
        IF Slot(m, v.values, i) < 0
        THEN FreeSlot(ReadFault(m1, v.values), -1)
        ELSE ReadFault(m1, v.values))

\* rjson_free(value), value being the frame's node; the frame's i counts the
\* children already handed to the recursive call.
rjson_free(s) ==
    Bind(Top(s), LAMBDA f :
       IF f.node = 0
       THEN [s EXCEPT !.stack = Pop(s)]
       ELSE IF ~s.mem.heap[f.node].live
       THEN [s EXCEPT !.stack = Pop(s), !.mem = ReadFault(s.mem, f.node)]
       ELSE
       Bind(s.mem.heap[f.node].data, LAMBDA v :
       Bind(f.i + 1, LAMBDA i :
       Bind(IF v.type = "RJSON_ARRAY" THEN Slot(s.mem, v.elements, i)
            ELSE Slot(s.mem, v.values, i), LAMBDA child :
       Bind(Pop(s) \o <<[f EXCEPT !.i = i]>>
            \o (IF child > 0 THEN <<CallFree(child)>> ELSE <<>>), LAMBDA more :
          IF v.type = "RJSON_STRING"
          THEN [s EXCEPT !.stack = Pop(s),
                         !.mem = Free(Free(s.mem, v.str_val), f.node)]
          ELSE IF v.type = "RJSON_ARRAY" /\ f.i < v.count
          THEN [s EXCEPT !.stack = more,
                         !.mem = IF child < 0 THEN FreeElement(s.mem, v, i)
                                 ELSE ReadFault(s.mem, v.elements)]
          ELSE IF v.type = "RJSON_ARRAY"
          THEN [s EXCEPT !.stack = Pop(s),
                         !.mem = Free(Free(s.mem, v.elements), f.node)]
          ELSE IF v.type = "RJSON_OBJECT" /\ f.i < v.count
          THEN [s EXCEPT !.stack = more, !.mem = FreeMember(s.mem, v, i)]
          ELSE IF v.type = "RJSON_OBJECT"
          THEN [s EXCEPT !.stack = Pop(s),
                         !.mem = Free(Free(Free(s.mem, v.keys), v.values), f.node)]
          ELSE [s EXCEPT !.stack = Pop(s), !.mem = Free(s.mem, f.node)])))))

(***************************************************************************)
(* Encoder: serialize_value, rjson_serialize                               *)
(***************************************************************************)
\* `return rc` from the running activation, the heap and the buffer being r's.
SerReturn(s, r, rc) ==
    [s EXCEPT !.stack = Pop(s), !.mem = r.m, !.sb = r.sb, !.ret = rc]

\* Variants of the guard that stop one level early, and one level late.
SerTooDeepEarly(depth) == depth + 1 >= RJSON_MAX_DEPTH

SerTooDeepLate(depth) == depth > RJSON_MAX_DEPTH

\* The guard at the head of serialize_value.
SerTooDeep(depth) == depth >= RJSON_MAX_DEPTH

\* The cases of serialize_value that return at once: [m, sb, rc].
SerScalar(m, b, v) ==
    CASE v.type = "RJSON_NULL" -> strbuf_append(m, b, B(<<"n", "u", "l", "l">>))
      [] v.type = "RJSON_BOOL" ->
           strbuf_append(m, b, IF v.bool_val # 0 THEN B(<<"t", "r", "u", "e">>)
                               ELSE B(<<"f", "a", "l", "s", "e">>))
      [] v.type = "RJSON_NUMBER" -> serialize_number(m, b, v.num_val)
      [] v.type = "RJSON_STRING" -> escape_string(m, b, Str(m, v.str_val))

\* What the loop body writes before child i: the comma, and for an object
\* the key and the colon.  [m, sb, rc].
SerBefore(m, b, v, i) ==
    Bind(IF i > 1 THEN strbuf_append(m, b, <<44>>) ELSE [m |-> m, sb |-> b, rc |-> 0],
         LAMBDA comma :
            IF comma.rc # 0 \/ v.type = "RJSON_ARRAY" THEN comma
            ELSE Bind(escape_string(ReadFault(comma.m, v.keys), comma.sb,
                                    Str(comma.m, Slot(comma.m, v.keys, i))),
                      LAMBDA key :
                         IF key.rc # 0 THEN key
                         ELSE strbuf_append(key.m, key.sb, <<58>>)))

\* The for loop of serialize_value for a container, f.i children being
\* written: r is the heap and the buffer so far.
SerLoop(s, f, r) ==
    Bind(r.m.heap[f.node].data, LAMBDA v :
       IF f.i >= v.count
       THEN Bind(strbuf_append(r.m, r.sb, IF v.type = "RJSON_OBJECT"
                                          THEN <<125>> ELSE <<93>>), LAMBDA close :
               SerReturn(s, close, close.rc))
       ELSE Bind(SerBefore(r.m, r.sb, v, f.i + 1), LAMBDA w :
               IF w.rc # 0 THEN SerReturn(s, w, -1)
               ELSE [s EXCEPT !.stack = Pop(s) \o
                                 <<[f EXCEPT !.pc = "child"],
                                   Frame("serialize_value", "entry",
                                         IF v.type = "RJSON_OBJECT"
                                         THEN Slot(w.m, v.values, f.i + 1)
                                         ELSE Slot(w.m, v.elements, f.i + 1),
                                         f.depth + 1)>>,
                              !.mem = ReadFault(w.m, IF v.type = "RJSON_OBJECT"
                                                     THEN v.values ELSE v.elements),
                              !.sb = w.sb]))

\* serialize_value(value, sb, depth), value being the frame's node.
serialize_value(s) ==
    Bind(Top(s), LAMBDA f :
    Bind([m |-> s.mem, sb |-> s.sb], LAMBDA now :
       CASE f.pc = "entry" ->
              IF SerTooDeep(f.depth) THEN SerReturn(s, now, -1)
              ELSE Bind(s.mem.heap[f.node].data, LAMBDA v :
                   Bind(Passed(s), LAMBDA s1 :
                      IF v.type \notin {"RJSON_ARRAY", "RJSON_OBJECT"}
                      THEN Bind(SerScalar(s.mem, s.sb, v), LAMBDA r :
                              SerReturn(s1, r, r.rc))
                      ELSE Bind(strbuf_append(s.mem, s.sb,
                                              IF v.type = "RJSON_OBJECT" THEN <<123>>
                                              ELSE <<91>>), LAMBDA open :
                              IF open.rc # 0 THEN SerReturn(s1, open, -1)
                              ELSE SerLoop(s1, f, open))))
         [] f.pc = "child" ->
              IF s.ret # 0 THEN SerReturn(s, now, -1)
              ELSE SerLoop(s, [f EXCEPT !.i = f.i + 1], now)))

\* A variant of rjson_serialize that hands the partial buffer to the caller
\* when serialize_value has failed.
serialize_handing_partial(s) ==
    Bind(Top(s), LAMBDA f :
       CASE f.pc = "entry" ->
              IF f.node = 0 \/ ~f.out_string
              THEN [s EXCEPT !.stack = Pop(s), !.ret = -1]
              ELSE Bind(strbuf_init(s.mem, 1024), LAMBDA init :
                      IF init.rc # 0
                      THEN [s EXCEPT !.stack = Pop(s), !.ret = -1, !.mem = init.m]
                      ELSE [s EXCEPT !.stack = Pop(s) \o
                                        <<[f EXCEPT !.pc = "result"],
                                          Frame("serialize_value", "entry", f.node, 0)>>,
                                     !.mem = init.m,
                                     !.sb = init.sb])
         [] f.pc = "result" ->
              [s EXCEPT !.stack = Pop(s),
                        !.ret = IF s.ret # 0 THEN -1 ELSE 0,
                        !.out = [str |-> s.sb.buffer,
                                 len |-> IF f.out_length THEN s.sb.length
                                         ELSE s.out.len]])

\* The capacity rjson_serialize gives its buffer to start with.
InitialCapacity == 1024

\* rjson_serialize(value, &out.str, &out.len), value being the frame's node;
\* either pointer may be NULL instead.
rjson_serialize(s) ==
    Bind(Top(s), LAMBDA f :
       CASE f.pc = "entry" ->
              IF f.node = 0 \/ ~f.out_string
              THEN [s EXCEPT !.stack = Pop(s), !.ret = -1]
              ELSE Bind(strbuf_init(s.mem, InitialCapacity), LAMBDA init :
                      IF init.rc # 0
                      THEN [s EXCEPT !.stack = Pop(s), !.ret = -1, !.mem = init.m]
                      ELSE [s EXCEPT !.stack = Pop(s) \o
                                        <<[f EXCEPT !.pc = "result"],
                                          Frame("serialize_value", "entry", f.node, 0)>>,
                                     !.mem = init.m,
                                     !.sb = init.sb])
         [] f.pc = "result" ->
              IF s.ret # 0
              THEN [s EXCEPT !.stack = Pop(s),
                             !.ret = -1,
                             !.mem = Free(s.mem, s.sb.buffer)]
              ELSE [s EXCEPT !.stack = Pop(s),
                             !.ret = 0,
                             !.out = [str |-> s.sb.buffer,
                                      len |-> IF f.out_length THEN s.sb.length
                                              ELSE s.out.len]])

(***************************************************************************)
(* Running a call                                                          *)
(***************************************************************************)
\* One step of the activation on top of the stack.
\* The decoder has made a step and left the machine r: every byte the step
\* read through the cursor lies at or before the place the cursor is left at.
Moved(r) == [r EXCEPT !.deep.far = Max(@, r.pos)]

Library(s) ==
    Bind(Top(s), LAMBDA f :
    Bind(IF f.pc = "entry" THEN [s EXCEPT !.deep.called = Max(@, f.depth)] ELSE s,
         LAMBDA s1 :
       CASE f.fn = "parse_value" -> Moved(parse_value(s1))
         [] f.fn = "parse_array" -> Moved(parse_array(s1))
         [] f.fn = "parse_object" -> Moved(parse_object(s1))
         [] f.fn = "rjson_parse" -> Moved(rjson_parse(s1))
         [] f.fn = "rjson_free" -> rjson_free(s1)
         [] f.fn = "serialize_value" -> serialize_value(s1)
         [] f.fn = "rjson_serialize" -> rjson_serialize(s1)))

\* Up to 2^k steps, stopping when the stack is empty.
RECURSIVE Run(_, _)
Run(s, k) ==
    IF s.stack = <<>> THEN s
    ELSE IF k = 0 THEN Library(s)
    ELSE Bind(Run(s, k - 1), LAMBDA r : Run(r, k - 1))

\* The machine s0 run until every activation has returned.
RECURSIVE Complete(_)
Complete(s0) ==
    Bind(s0, LAMBDA s :
    Bind(Run(s, 10), LAMBDA r : IF r.stack = <<>> THEN r ELSE Complete(r)))

(***************************************************************************)
(* Documents                                                               *)
(***************************************************************************)
\* s repeated n times.
Rep(s, n) == [i \in 1..(n * Len(s)) |-> s[((i - 1) % Len(s)) + 1]]

\* core inside n arrays: [[[ core ]]].
NestArr(n, core) == Rep(<<91>>, n) \o core \o Rep(<<93>>, n)

\* core as the value of the member "a" inside n objects: {"a":{"a": core }}.
NestObj(n, core) == Rep(B(<<"{", "\"", "a", "\"", ":">>), n) \o core \o Rep(<<125>>, n)

\* A document with what RFC 8259 says about it: rfc (it is a valid JSON
\* text), nest (the deepest nesting of arrays and objects, a lone [] being 1),
\* nul (a string holds the escape \u0000), big (a number is beyond the range
\* of the finite binary64), tiny (a non-zero number is below the normal range).
Doc(t, rfc, nest) ==
    [text |-> t, rfc |-> rfc, nest |-> nest, nul |-> FALSE, big |-> FALSE, tiny |-> FALSE]

Valid(nest, s) == Doc(B(s), TRUE, nest)

Invalid(nest, s) == Doc(B(s), FALSE, nest)

Corpus ==
    { Valid(1, <<"[", "]">>),
      Valid(1, <<"{", "}">>),
      Valid(0, <<"\"", "x", "\"">>),
      Valid(0, <<"1", "2", "3">>),
      Valid(0, <<"t", "r", "u", "e">>),
      Valid(0, <<"f", "a", "l", "s", "e">>),
      Valid(0, <<"n", "u", "l", "l">>),
      Valid(0, <<"-", "0">>),
      Valid(0, <<"0", "e", "0">>),
      Valid(0, <<"0", "E", "+", "1">>),
      Valid(0, <<"-", "0", ".", "0">>),
      Valid(0, <<"1", ".", "5", "e", "1">>),
      Valid(0, <<"1", "E", "+", "2", "2">>),
      Valid(0, <<"2", "5", "e", "-", "2">>),
      Valid(0, <<"\"", "\\", "/", "\\", "n", "\\", "\"", "\\", "\\", "\"">>),
      Valid(0, <<"\"", "\\", "u", "0", "0", "4", "1", "\\", "u", "0", "0", "e", "9",
                 "\\", "u", "2", "0", "A", "C", "\"">>),
      Valid(0, <<"\"", "\\", "u", "D", "8", "3", "D", "\\", "u", "D", "E", "0", "0", "\"">>),
      Valid(0, <<"\"", "\\", "u", "0", "0", "1", "f", "\\", "t", "\"">>),
      Valid(1, <<"{", "\"", "a", "\"", ":", "1", ",", "\"", "a", "\"", ":", "2", "}">>),
      Valid(2, <<"{", "\"", "t", "r", "u", "e", "\"", ":", "[", "t", "r", "u", "e", ",",
                 "n", "u", "l", "l", "]", ",", "\"", "\"", ":", "{", "}", "}">>),
      Valid(2, <<" ", "\t", "\n", "\r", "[", " ", "1", "\t", ",", " ", "{", "\"", "a",
                 "\"", " ", ":", "2", "}", "\n", "]", " ">>),
      Valid(3, <<"[", "[", "]", ",", "[", "[", "\"", "a", "\"", "]", "]", ",", "0", ".",
                 "5", "]">>),
      Doc(<<239, 187, 191>> \o B(<<"{", "\"", "a", "\"", ":", "1", "}">>), FALSE, 1),
      Doc(B(<<"\"">>) \o <<240, 159, 148, 165, 127>> \o B(<<"\"">>), TRUE, 0),
      [Valid(0, <<"\"", "\\", "u", "0", "0", "0", "0", "\"">>) EXCEPT !.nul = TRUE],
      [Valid(1, <<"[", "\"", "a", "\\", "u", "0", "0", "0", "0", "\"", "]">>)
          EXCEPT !.nul = TRUE],
      [Valid(0, <<"1", "e", "3", "0", "9">>) EXCEPT !.big = TRUE],
      [Valid(1, <<"[", "-", "2", "E", "3", "0", "8", "]">>) EXCEPT !.big = TRUE],
      [Valid(0, <<"1", "e", "-", "4", "0", "0">>) EXCEPT !.tiny = TRUE],
      [Valid(0, <<"2", "e", "-", "3", "1", "0">>) EXCEPT !.tiny = TRUE],
      Invalid(0, <<>>),
      Invalid(0, <<" ">>),
      Invalid(0, <<"0", "1">>),
      Invalid(0, <<"-">>),
      Invalid(0, <<"1", ".">>),
      Invalid(0, <<"1", "e", "+">>),
      Invalid(0, <<"0", "x", "1", "F">>),
      Invalid(0, <<"t", "r", "u">>),
      Invalid(0, <<"\"", "a">>),
      Invalid(0, <<"\"", "\\", "x", "\"">>),
      Invalid(0, <<"\"", "\n", "\"">>),
      Invalid(0, <<"\"", "\\", "u", "D", "8", "0", "0", "\"">>),
      Invalid(0, <<"\"", "\\", "u", "D", "E", "0", "0", "\"">>),
      Invalid(0, <<"\"", "\\", "u", "1", "2", "\"">>),
      Invalid(1, <<"[", "1", ",", "2", ",", "]">>),
      Invalid(1, <<"[", "1", " ", "2", "]">>),
      Invalid(1, <<"[", "\"", "a", "\"", ",", "x", "]">>),
      Invalid(1, <<"[", "1">>),
      Invalid(2, <<"[", "[", "1", "]", ",", "[", "2", "}", "]">>),
      Invalid(1, <<"{", "}", " ", "x">>),
      Invalid(1, <<"[", "0", "x", "1", "]">>),
      Invalid(1, <<"{", "\"", "a", "\"", ":", "1", ",", "}">>),
      Invalid(1, <<"{", "\"", "a", "\"", " ", "1", "}">>),
      Invalid(1, <<"{", "\"", "a", "\"", ":", "}">>),
      Invalid(1, <<"{", "1", ":", "1", "}">>),
      Invalid(1, <<"{", "\"", "a", "\"", ":", "\"", "b", "\"", " ", "\"", "c", "\"", "}">>),
      Invalid(2, <<"{", "\"", "a", "\"", ":", "[", "1", "]", ",", "\"", "b", "\"", ":",
                   "[", "\f", "]", "}">>) }

\* How far beyond RJSON_MAX_DEPTH the deep inputs go.
DepthSlack == 1

Depths == (RJSON_MAX_DEPTH - 1)..(RJSON_MAX_DEPTH + DepthSlack)

DeepDocs ==
    {Doc(NestArr(n, <<>>), TRUE, n) : n \in Depths}
    \cup {Doc(NestArr(n, B(<<"1">>)), TRUE, n) : n \in Depths}
    \cup {Doc(NestObj(n - 1, B(<<"{", "}">>)), TRUE, n) : n \in Depths}
    \cup {Doc(NestObj(n, B(<<"\"", "\"">>)), TRUE, n) : n \in Depths}

(***************************************************************************)
(* Callers.  Every caller starts from an empty heap.                       *)
(***************************************************************************)
Envs == [moves : BOOLEAN, zeroFrees : BOOLEAN, underflowErange : BOOLEAN]

\* The C library the deep inputs run against.
DeepEnv == [moves |-> TRUE, zeroFrees |-> TRUE, underflowErange |-> TRUE]

AVNull == AV("RJSON_NULL", 0, NumZero, <<>>)

NoTree == [p |-> 0, v |-> AVNull]

NoCall == [op |-> "none", container |-> 0, child |-> 0, key |-> NoString, rc |-> 0,
           pre |-> EmptyMem]

InitCaller ==
    /\ mem = EmptyMem
    /\ deep = NoDepth
    /\ ret = 0
    /\ retv = AVNull
    /\ text = <<>>
    /\ pos = 1
    /\ sb = [buffer |-> 0, length |-> 0, capacity |-> 0]
    /\ phase = "start"
    /\ tree1 = NoTree
    /\ out = [str |-> 0, len |-> 0]
    /\ tree2 = NoTree
    /\ hist = [dec |-> "none", enc |-> "none", redec |-> "none", made |-> 0,
               adds |-> 0, failed |-> FALSE]
    /\ roots = {}
    /\ call = NoCall
    /\ chain = [root |-> 0, current |-> 0, i |-> 0]

\* The machine when the caller makes the calls `frames` (the last one first),
\* m being the heap and t the input.
Start(frames, m, t) ==
    [mem |-> m, stack |-> frames, ret |-> ret, retv |-> retv, text |-> t, pos |-> pos,
     sb |-> sb, out |-> out, deep |-> NoDepth]

\* The calls have returned and left the machine r.
Return(r) ==
    /\ mem' = r.mem
    /\ deep' = r.deep
    /\ ret' = r.ret
    /\ retv' = r.retv
    /\ text' = r.text
    /\ pos' = r.pos
    /\ sb' = r.sb
    /\ out' = r.out

(***************************************************************************)
(* Caller 1: decode a document, encode the tree, decode the output,        *)
(* release everything                                                      *)
(***************************************************************************)
Init ==
    /\ InitCaller
    /\ \/ doc \in Corpus /\ env \in Envs
       \/ doc \in DeepDocs /\ env = DeepEnv

\* val = rjson_parse(doc), the f-th allocation request failing (0: none).
Decode(f) ==
    /\ phase = "start"
    /\ phase' = "decode"
    /\ \E r \in {Complete(Start(<<Frame("rjson_parse", "entry", 0, 0)>>,
                                Entering(mem, f), doc.text))} : Return(r)
    /\ UNCHANGED <<env, doc, tree1, tree2, hist, roots, call, chain>>

DecodeDoc == Decode(0)

\* rjson_parse has returned.
Decoded == phase = "decode"

\* rjson_parse returned NULL: there is nothing to release.
GiveUp ==
    /\ Decoded /\ ret = 0
    /\ phase' = "done"
    /\ hist' = [hist EXCEPT !.dec = "null"]
    /\ UNCHANGED <<mem, env, deep, ret, retv, text, pos, sb, doc, tree1, out, tree2,
                   roots, call, chain>>

\* rjson_serialize(val, &out, &len) on the tree the decoder returned.
Encode ==
    /\ Decoded /\ ret # 0
    /\ phase' = "encode"
    /\ tree1' = [p |-> ret, v |-> retv]
    /\ hist' = [hist EXCEPT !.dec = "ok"]
    /\ \E r \in {Complete(Start(<<Frame("rjson_serialize", "entry", ret, 0)>>,
                                Entering(mem, 0), text))} : Return(r)
    /\ UNCHANGED <<env, doc, tree2, roots, call, chain>>

\* rjson_serialize has returned.
Encoded == phase = "encode"

\* rjson_serialize failed: rjson_free(val).
Abandon ==
    /\ Encoded /\ ret # 0
    /\ phase' = "release"
    /\ hist' = [hist EXCEPT !.enc = "fail"]
    /\ \E r \in {Complete(Start(<<CallFree(tree1.p)>>, mem, text))} : Return(r)
    /\ UNCHANGED <<env, doc, tree1, tree2, roots, call, chain>>

\* rjson_parse(out) on the encoder's output.
Redecode ==
    /\ Encoded /\ ret = 0
    /\ phase' = "redecode"
    /\ hist' = [hist EXCEPT !.enc = "ok"]
    /\ \E r \in {Complete(Start(<<Frame("rjson_parse", "entry", 0, 0)>>,
                                Entering(mem, 0), Str(mem, out.str)))} : Return(r)
    /\ UNCHANGED <<env, doc, tree1, tree2, roots, call, chain>>

\* The end of the round trip: free(out), rjson_free of both trees.
Finish ==
    /\ phase = "redecode"
    /\ phase' = "release"
    /\ hist' = [hist EXCEPT !.redec = IF ret = 0 THEN "null" ELSE "ok"]
    /\ tree2' = IF ret = 0 THEN NoTree ELSE [p |-> ret, v |-> retv]
    /\ \E r \in {Complete(Start(<<CallFree(tree1.p), CallFree(ret)>>,
                                Free(mem, out.str), text))} : Return(r)
    /\ UNCHANGED <<env, doc, tree1, roots, call, chain>>

Next ==
    \/ DecodeDoc
    \/ GiveUp
    \/ Encode
    \/ Abandon
    \/ Redecode
    \/ Finish

Spec == Init /\ [][Next]_vars

(***************************************************************************)
(* Caller 2: rjson_parse when the C library refuses one allocation         *)
(***************************************************************************)
\* The largest number of the allocation request that is refused.
MaxFail == 13

\* The documents with a container or a string in them.
MemCorpus == {d \in Corpus : d.nest >= 1 \/ At(d.text, 1) \in {34, 48}}

InitMem ==
    /\ InitCaller
    /\ doc \in MemCorpus
    /\ env \in Envs

DecodeFailing == \E f \in 1..MaxFail : Decode(f)

\* rjson_parse returned a tree all the same: rjson_free(val).
Discard ==
    /\ Decoded /\ ret # 0
    /\ phase' = "release"
    /\ \E r \in {Complete(Start(<<CallFree(ret)>>, mem, text))} : Return(r)
    /\ UNCHANGED <<env, doc, tree1, tree2, hist, roots, call, chain>>

NextMem ==
    \/ DecodeFailing
    \/ Discard

SpecMem == InitMem /\ [][NextMem]_vars

(***************************************************************************)
(* The building interface as callers use it                                *)
(***************************************************************************)
NaN == [cls |-> "nan", sign |-> 0, mant |-> 0, exp |-> 0]

Kinds == {"null", "bool", "number", "nan", "string", "array", "object"}

\* A call of the constructor of the kind, with sample arguments.
NewNode(m, kind) ==
    CASE kind = "null"   -> rjson_null_new(m)
      [] kind = "bool"   -> rjson_bool_new(m, 1)
      [] kind = "number" -> rjson_number_new(m, Normalise(1, 15, -1))
      [] kind = "nan"    -> rjson_number_new(m, NaN)
      [] kind = "string" -> rjson_string_new(m, B(<<"a", "\n">>))
      [] kind = "array"  -> rjson_array_new(m)
      [] kind = "object" -> rjson_object_new(m)

(***************************************************************************)
(* Caller 3: build a nested tree from the root down, then encode it        *)
(***************************************************************************)
\* The depths of the shallow trees.
ShallowChain == 2

ChainDepths ==
    (0..ShallowChain) \cup ((RJSON_MAX_DEPTH - 1)..(RJSON_MAX_DEPTH + DepthSlack - 1))

\* depth: the depth of the deepest node; link: the containers on the way to
\* it; leaf: the node at that depth.
Chains == [depth : ChainDepths, link : {"array", "object"}, leaf : Kinds]

InitEnc ==
    /\ InitCaller
    /\ doc \in Chains
    /\ \/ doc.depth <= ShallowChain /\ env \in Envs
       \/ doc.depth > ShallowChain /\ env = DeepEnv

\* The kind of the node at depth i.
KindAt(i) == IF i = doc.depth THEN doc.leaf ELSE doc.link

\* root = rjson_array_new(); current = root;
NewRoot ==
    /\ phase = "start"
    /\ phase' = "build"
    /\ \E r \in {NewNode(Entering(mem, 0), KindAt(0))} :
         /\ mem' = r.m
         /\ chain' = [root |-> r.p, current |-> r.p, i |-> 0]
    /\ UNCHANGED <<env, deep, ret, retv, text, pos, sb, doc, tree1, out, tree2, hist,
                   roots, call>>

\* next = rjson_array_new(); rjson_array_add(current, next); current = next;
Deepen ==
    /\ phase = "build" /\ chain.i < doc.depth
    /\ \E nx \in {NewNode(Entering(mem, 0), KindAt(chain.i + 1))} :
       \E ad \in {IF doc.link = "array"
                  THEN rjson_array_add(Entering(nx.m, 0), chain.current, nx.p)
                  ELSE rjson_object_add(Entering(nx.m, 0), chain.current, B(<<"k">>),
                                        nx.p)} :
         /\ mem' = ad.m
         /\ chain' = [chain EXCEPT !.current = nx.p, !.i = chain.i + 1]
    /\ UNCHANGED <<env, deep, ret, retv, text, pos, sb, phase, doc, tree1, out, tree2,
                   hist, roots, call>>

\* result = rjson_serialize(root, &out, NULL);
EncodeChain ==
    /\ phase = "build" /\ chain.i = doc.depth
    /\ phase' = "encode"
    /\ \E r \in {Complete(Start(<<Frame("rjson_serialize", "entry", chain.root, 0)>>,
                                Entering(mem, 0), text))} : Return(r)
    /\ UNCHANGED <<env, doc, tree1, tree2, hist, roots, call, chain>>

\* rjson_free(root);
FreeChain ==
    /\ Encoded
    /\ phase' = "release"
    /\ \E r \in {Complete(Start(<<CallFree(chain.root)>>,
                                IF ret = 0 THEN Free(mem, out.str) ELSE mem, text))} :
         Return(r)
    /\ UNCHANGED <<env, doc, tree1, tree2, hist, roots, call, chain>>

NextEnc ==
    \/ NewRoot
    \/ Deepen
    \/ EncodeChain
    \/ FreeChain

SpecEnc == InitEnc /\ [][NextEnc]_vars

(***************************************************************************)
(* Caller 4: constructors, adds and rjson_free in any order, the C library *)
(* refusing an allocation now and then                                     *)
(***************************************************************************)
\* How many constructor calls a caller makes, and how many adds.
MaxNodes == 3

MaxAdds == 2

BuildKinds == {"string", "array", "object"}

\* The keys offered to rjson_object_add (NoString: a NULL key).
Keys == {B(<<"k">>), NoString}

\* No number is converted here, so one answer about underflow is enough.
InitAdd ==
    /\ InitCaller
    /\ doc = NoString
    /\ env \in {e \in Envs : e.underflowErange}

Idle == phase = "start"

Construct ==
    /\ Idle /\ hist.made < MaxNodes
    /\ \E kind \in BuildKinds, f \in 0..2 :
       \E r \in {NewNode(Entering(mem, f), kind)} :
         /\ mem' = Leaving(r.m)
         /\ roots' = IF r.p = 0 THEN roots ELSE roots \cup {r.p}
         /\ call' = [NoCall EXCEPT !.op = "new", !.child = r.p, !.pre = mem]
    /\ hist' = [hist EXCEPT !.made = @ + 1]
    /\ UNCHANGED <<env, deep, ret, retv, text, pos, sb, phase, doc, tree1, out, tree2,
                   chain>>

\* rc = rjson_array_add(a, e), the caller owning both (or passing NULL).
ArrayAdd ==
    /\ Idle /\ hist.adds < MaxAdds
    /\ \E a \in roots \cup {0}, e \in roots \cup {0}, f \in 0..1 :
         /\ a # e \/ a = 0
         /\ \E r \in {rjson_array_add(Entering(mem, f), a, e)} :
              /\ mem' = Leaving(r.m)
              /\ roots' = IF r.rc = 0 THEN roots \ {e} ELSE roots
              /\ call' = [NoCall EXCEPT !.op = "array_add", !.container = a,
                                        !.child = e, !.rc = r.rc, !.pre = mem]
              /\ hist' = [hist EXCEPT !.adds = @ + 1, !.failed = @ \/ r.rc # 0]
    /\ UNCHANGED <<env, deep, ret, retv, text, pos, sb, phase, doc, tree1, out, tree2,
                   chain>>

\* rc = rjson_object_add(o, key, v), the caller owning o and v (or passing
\* NULL).
ObjectAdd ==
    /\ Idle /\ hist.adds < MaxAdds
    /\ \E o \in roots \cup {0}, v \in roots \cup {0}, key \in Keys, f \in 0..3 :
         /\ o # v \/ o = 0
         /\ \E r \in {rjson_object_add(Entering(mem, f), o, key, v)} :
              /\ mem' = Leaving(r.m)
              /\ roots' = IF r.rc = 0 THEN roots \ {v} ELSE roots
              /\ call' = [NoCall EXCEPT !.op = "object_add", !.container = o,
                                        !.child = v, !.key = key, !.rc = r.rc,
                                        !.pre = mem]
              /\ hist' = [hist EXCEPT !.adds = @ + 1, !.failed = @ \/ r.rc # 0]
    /\ UNCHANGED <<env, deep, ret, retv, text, pos, sb, phase, doc, tree1, out, tree2,
                   chain>>

\* rjson_free(r) of a tree the caller owns, or of NULL: the caller has
\* finished building.
FreeRoot ==
    /\ phase \in {"start", "release"}
    /\ phase' = "release"
    /\ \E r \in roots \cup {0} :
         /\ \E m \in {Complete(Start(<<CallFree(r)>>, mem, text))} : Return(m)
         /\ roots' = roots \ {r}
         /\ call' = [NoCall EXCEPT !.op = "free", !.container = r, !.pre = mem]
    /\ UNCHANGED <<env, doc, tree1, tree2, hist, chain>>

NextAdd ==
    \/ Construct
    \/ ArrayAdd
    \/ ObjectAdd
    \/ FreeRoot

SpecAdd == InitAdd /\ [][NextAdd]_vars

(***************************************************************************)
(* Properties of caller 1 (Spec)                                           *)
(***************************************************************************)
\* The outcome of the round trip is known.
Settled == phase \in {"done", "release"}

\* Every number of the document is within the normal range of binary64.
InRange(d) == ~d.big /\ ~d.tiny

\* A valid document within what the decoder is meant to take: no \u0000, no
\* number out of range, nesting up to RJSON_MAX_DEPTH.
Admissible(d) == d.rfc /\ ~d.nul /\ InRange(d) /\ d.nest <= RJSON_MAX_DEPTH

\* C1: for every valid document nested up to the deepest the decoder accepts,
\* rjson_parse succeeds, rjson_serialize of the tree succeeds, and parsing
\* the output gives a tree structurally equal to the first one.
C1_RoundTrip ==
    (Settled /\ Admissible(doc)) =>
        /\ hist.dec = "ok"
        /\ hist.enc = "ok"
        /\ hist.redec = "ok"
        /\ tree2.v = tree1.v

C4_AtLeastMaxDepth == (Decoded /\ doc.nest >= RJSON_MAX_DEPTH) => ret = 0

\* C4 amended: every input nested more than RJSON_MAX_DEPTH deep makes
\* rjson_parse return NULL, and no activation of the decoder runs deeper than
\* RJSON_MAX_DEPTH: parse_array and parse_object go past their guard only at
\* a depth below it.
C4_BeyondMaxDepth ==
    /\ (Decoded /\ doc.nest > RJSON_MAX_DEPTH) => ret = 0
    /\ phase \in {"decode", "redecode"} =>
           (deep.called <= RJSON_MAX_DEPTH /\ deep.passed < RJSON_MAX_DEPTH)

\* A valid document nested RJSON_MAX_DEPTH + 1 deep was refused.
C4_Witness == Decoded /\ doc.rfc /\ doc.nest = RJSON_MAX_DEPTH + 1 /\ ret = 0

(***************************************************************************)
(* Properties of caller 3 (SpecEnc)                                        *)
(***************************************************************************)
\* The tree holds no non-finite number (only the leaf may be a number).
Finite == doc.leaf # "nan"

\* C3 as stated: rjson_serialize returns 0 for every tree without a
\* non-finite number, whatever its depth and whatever sits at the deepest
\* level.
C3_AnyDepth == (Encoded /\ Finite) => ret = 0

\* C3 amended: rjson_serialize returns 0, and hands out the text, for every
\* tree without a non-finite number whose nodes all sit at a depth below
\* RJSON_MAX_DEPTH.
C3_BelowMaxDepth ==
    (Encoded /\ Finite /\ chain.i < RJSON_MAX_DEPTH) => (ret = 0 /\ out.str # 0)

\* A tree whose deepest node sits at depth RJSON_MAX_DEPTH - 1 was encoded.
C3_Witness ==
    Encoded /\ Finite /\ chain.i = RJSON_MAX_DEPTH - 1 /\ ret = 0

\* C5: with the root at depth 0 and every child one deeper than its parent,
\* rjson_serialize returns -1 whenever the tree has a node, scalar or
\* container, at depth RJSON_MAX_DEPTH, which is when serialize_value is called
\* at that depth; a tree of finite numbers gets -1 for no other reason (no
\* allocation failing); and serialize_value is never called deeper than
\* RJSON_MAX_DEPTH nor goes past its guard at that depth.
C5_DepthGuard ==
    Encoded =>
        /\ chain.i >= RJSON_MAX_DEPTH => ret = -1
        /\ (Finite /\ ret = -1) => chain.i >= RJSON_MAX_DEPTH
        /\ deep.called = RJSON_MAX_DEPTH <=> chain.i >= RJSON_MAX_DEPTH
        /\ deep.called <= RJSON_MAX_DEPTH
        /\ deep.passed < RJSON_MAX_DEPTH

\* A tree with a scalar at depth RJSON_MAX_DEPTH was refused.
C5_Witness ==
    /\ Encoded /\ ret = -1
    /\ chain.i = RJSON_MAX_DEPTH
    /\ doc.leaf \in {"null", "bool", "number", "string"}

(***************************************************************************)
(* Properties of caller 2 (SpecMem)                                        *)
(***************************************************************************)
\* C6: whenever rjson_parse returns NULL, every block allocated during the
\* call has been freed exactly once: none is left, none was freed twice, no
\* freed pointer was given to realloc or free or read through.
C6_NullLeavesNothing ==
    (Decoded /\ ret = 0) => (Live(mem) = {} /\ mem.faults = {})

(***************************************************************************)
(* Properties of caller 4 (SpecAdd)                                        *)
(***************************************************************************)
\* A pointer that is NULL or refers to live storage.
Usable(m, p) == p = 0 \/ m.heap[p].live

\* The blocks the tree rooted at node p owns.
RECURSIVE Owned(_, _)
Owned(m, p) ==
    LET v == m.heap[p].data
    IN  {p} \cup
        CASE v.type = "RJSON_STRING" -> {v.str_val}
          [] v.type = "RJSON_ARRAY"  ->
               ({v.elements} \ {0})
               \cup UNION {Owned(m, Slot(m, v.elements, i)) : i \in 1..v.count}
          [] v.type = "RJSON_OBJECT" ->
               ({v.keys, v.values} \ {0})
               \cup UNION {{Slot(m, v.keys, i)} \cup Owned(m, Slot(m, v.values, i)) :
                             i \in 1..v.count}
          [] OTHER -> {}

\* The live blocks that hold characters.
LiveChars(m) == {p \in Live(m) : m.heap[p].kind = "chars"}

\* rjson_object_add has just failed on an object that was in order.
ObjectAddFailed ==
    /\ call.op = "object_add" /\ call.rc # 0
    /\ call.container # 0
    /\ call.pre.heap[call.container].data.type = "RJSON_OBJECT"
    /\ Usable(call.pre, call.pre.heap[call.container].data.keys)
    /\ Usable(call.pre, call.pre.heap[call.container].data.values)

\* C7: when rjson_object_add fails the object is as before: same count, same
\* keys and values in the same order, keys and values pointers referring to
\* live storage, nothing faulty done, the offered value not stored.
C7_ObjectUnchanged ==
    ObjectAddFailed =>
        LET o == mem.heap[call.container].data
            o0 == call.pre.heap[call.container].data
        IN  /\ mem.faults = call.pre.faults
            /\ o.count = o0.count
            /\ Usable(mem, o.keys)
            /\ Usable(mem, o.values)
            /\ \A i \in 1..o.count :
                  /\ Slot(mem, o.keys, i) = Slot(call.pre, o0.keys, i)
                  /\ Slot(mem, o.values, i) = Slot(call.pre, o0.values, i)
                  /\ Slot(mem, o.values, i) # call.child

AddFailed == call.op \in {"array_add", "object_add"} /\ call.rc # 0 /\ call.child # 0

Freed == call.op = "free"

\* C10: rjson_free(root) frees the blocks the tree owns, each once, and
\* nothing else; rjson_free(NULL) does nothing; after constructor calls,
\* successful adds and rjson_free of every tree the caller owns no block is
\* live.
C10_FreeReleasesTree ==
    (Freed /\ ~hist.failed) =>
        /\ mem.faults = {}
        /\ Live(mem) = Live(call.pre)
                       \ (IF call.container = 0 THEN {}
                          ELSE Owned(call.pre, call.container))
        /\ call.container = 0 => mem.heap = call.pre.heap
        /\ roots = {} => Live(mem) = {}

\* An object holding an array that holds a string was freed: eight blocks.
C10_Witness ==
    /\ Freed /\ ~hist.failed
    /\ call.container # 0
    /\ call.pre.heap[call.container].data.type = "RJSON_OBJECT"
    /\ Cardinality(Owned(call.pre, call.container)) = 8
    /\ Live(mem) = {}

(***************************************************************************)
(* Caller 5: build a value, encode it with NULL arguments or while the C   *)
(* library refuses an allocation, release it                               *)
(***************************************************************************)
\* n bytes that need no escape.
Fill(n) == Rep(<<97>>, n)

\* A child to add: a string, under a key when the root is an object.
Part(key, str) == [key |-> key, str |-> str]

\* What the caller builds: the root (a string, a number that is not finite,
\* an array or an object of strings), or the tree rjson_parse makes of a text.
Plan(root, str, parts) == [root |-> root, str |-> str, parts |-> parts, text |-> <<>>]

\* Every byte a C string can hold, alone in a string and alone in a key.
ByteDocs ==
    {Plan("string", <<b>>, <<>>) : b \in 1..255}
    \cup {Plan("object", <<>>, <<Part(<<b>>, <<>>)>>) : b \in 1..255}

\* The strings of the encoding tests, and some more.
TextDocs ==
    { Plan("string", <<>>, <<>>),
      Plan("string", B(<<"l", "n", "\n", "b", "r", "\t", "t", "a", "b">>), <<>>),
      Plan("string", <<1>>, <<>>),
      Plan("string", B(<<"a", "\"", " ", "\\">>), <<>>),
      Plan("string", <<240, 159, 148, 165>>, <<>>),
      Plan("string", <<47, 127, 31, 32, 8, 12, 13, 128, 255>>, <<>>),
      Plan("array", <<>>, <<>>),
      Plan("array", <<>>, <<Part(NoString, B(<<"a">>)), Part(NoString, <<10, 34>>)>>),
      Plan("object", <<>>, <<>>),
      Plan("object", <<>>, <<Part(B(<<"k">>), <<9>>), Part(<<92, 11>>, B(<<"/">>))>>),
      Plan("nan", <<>>, <<>>) }

\* Values whose text fills the initial capacity just before a quote is
\* written: the closing quote of a string, the opening quote of an element,
\* the closing quote of a key, the opening quote of a second key; and a
\* string one byte longer, which fills it before its last byte is written.
FullDocs ==
    { Plan("string", Fill(InitialCapacity - 2), <<>>),
      Plan("string", Fill(InitialCapacity - 1), <<>>),
      Plan("array", <<>>, <<Part(NoString, Fill(InitialCapacity - 5)),
                            Part(NoString, B(<<"x">>))>>),
      Plan("object", <<>>, <<Part(Fill(InitialCapacity - 3), <<>>)>>),
      Plan("object", <<>>, <<Part(Fill(InitialCapacity - 8), <<>>),
                             Part(B(<<"k">>), <<>>)>>) }

\* A tree with a node at depth RJSON_MAX_DEPTH, as the decoder makes it.
ParsedDocs ==
    {[Plan("parsed", <<>>, <<>>) EXCEPT !.text = NestArr(RJSON_MAX_DEPTH, B(<<"1">>))]}

SerDocs == ByteDocs \cup TextDocs \cup FullDocs \cup ParsedDocs

\* The largest number of the allocation request rjson_serialize is refused.
MaxSerFail == 3

\* Which arguments of rjson_serialize are not NULL.
SerArgs ==
    { [value |-> TRUE, out_string |-> TRUE, out_length |-> TRUE],
      [value |-> TRUE, out_string |-> TRUE, out_length |-> FALSE],
      [value |-> TRUE, out_string |-> FALSE, out_length |-> TRUE],
      [value |-> FALSE, out_string |-> TRUE, out_length |-> TRUE] }

\* Neither number conversion nor realloc(p, 0) happens here.
InitSer ==
    /\ InitCaller
    /\ doc \in SerDocs
    /\ env \in {e \in Envs : e.underflowErange /\ e.zeroFrees}

\* rjson_value *val = rjson_string_new("..."), or another constructor.
NewValue ==
    /\ phase = "start" /\ doc.root # "parsed"
    /\ phase' = "build"
    /\ \E r \in {IF doc.root = "string" THEN rjson_string_new(Entering(mem, 0), doc.str)
                 ELSE NewNode(Entering(mem, 0), doc.root)} :
         /\ mem' = r.m
         /\ chain' = [root |-> r.p, current |-> r.p, i |-> 0]
    /\ UNCHANGED <<env, deep, ret, retv, text, pos, sb, doc, tree1, out, tree2, hist,
                   roots, call>>

\* rjson_value *val = rjson_parse(text).
ParseValue ==
    /\ phase = "start" /\ doc.root = "parsed"
    /\ phase' = "build"
    /\ \E r \in {Complete(Start(<<Frame("rjson_parse", "entry", 0, 0)>>,
                                Entering(mem, 0), doc.text))} :
         /\ Return(r)
         /\ chain' = [root |-> r.ret, current |-> r.ret, i |-> 0]
    /\ UNCHANGED <<env, doc, tree1, tree2, hist, roots, call>>

\* rjson_array_add(val, rjson_string_new(str)), or rjson_object_add with
\* the key.
AddPart ==
    /\ phase = "build" /\ chain.i < Len(doc.parts)
    /\ \E part \in {doc.parts[chain.i + 1]} :
       \E nx \in {rjson_string_new(Entering(mem, 0), part.str)} :
       \E ad \in {IF doc.root = "array"
                  THEN rjson_array_add(Entering(nx.m, 0), chain.root, nx.p)
                  ELSE rjson_object_add(Entering(nx.m, 0), chain.root, part.key,
                                        nx.p)} :
         /\ mem' = ad.m
         /\ chain' = [chain EXCEPT !.current = nx.p, !.i = chain.i + 1]
    /\ UNCHANGED <<env, deep, ret, retv, text, pos, sb, phase, doc, tree1, out, tree2,
                   hist, roots, call>>

\* result = rjson_serialize(val, &out, &len), some of the arguments being
\* NULL, the f-th allocation request failing (0: none).  out and len are as
\* the caller initialised them: NULL and 0.
EncodeFailing ==
    /\ phase = "build" /\ chain.i = Len(doc.parts)
    /\ phase' = "encode"
    /\ \E f \in 0..MaxSerFail, a \in SerArgs :
       \E r \in {Complete(Start(
                    <<[Frame("rjson_serialize", "entry",
                             IF a.value THEN chain.root ELSE 0, 0)
                          EXCEPT !.out_string = a.out_string,
                                 !.out_length = a.out_length]>>,
                    Entering(mem, f), text))} :
         /\ Return(r)
         /\ call' = [NoCall EXCEPT !.op = "serialize",
                                   !.container = IF a.value THEN chain.root ELSE 0,
                                   !.key = a,
                                   !.rc = r.ret,
                                   !.pre = mem]
    /\ UNCHANGED <<env, doc, tree1, tree2, hist, roots, chain>>

NextSer ==
    \/ NewValue
    \/ ParseValue
    \/ AddPart
    \/ EncodeFailing
    \/ FreeChain

SpecSer == InitSer /\ [][NextSer]_vars

(***************************************************************************)
(* Properties of caller 5 (SpecSer)                                        *)
(***************************************************************************)
\* The escape policy of the encoder, byte by byte.
Escaped(b) ==
    CASE b = 34 -> B(<<"\\", "\"">>)
      [] b = 92 -> B(<<"\\", "\\">>)
      [] b = 8  -> B(<<"\\", "b">>)
      [] b = 12 -> B(<<"\\", "f">>)
      [] b = 10 -> B(<<"\\", "n">>)
      [] b = 13 -> B(<<"\\", "r">>)
      [] b = 9  -> B(<<"\\", "t">>)
      [] b < 32 /\ b \notin {8, 9, 10, 12, 13} ->
           B(<<"\\", "u", "0", "0">>)
           \o <<IF b < 16 THEN 48 ELSE 49,
                (B(<<"0", "1", "2", "3", "4", "5", "6", "7", "8", "9",
                     "a", "b", "c", "d", "e", "f">>))[(b % 16) + 1]>>
      [] OTHER -> <<b>>

\* The sequences of ss one after the other, sep between them.
RECURSIVE Join(_, _)
Join(ss, sep) ==
    IF ss = <<>> THEN <<>>
    ELSE IF Len(ss) = 1 THEN ss[1]
    ELSE Join(SubSeq(ss, 1, Len(ss) \div 2), sep) \o sep
         \o Join(SubSeq(ss, (Len(ss) \div 2) + 1, Len(ss)), sep)

\* A string as the encoder is to write it.
Quoted(str) == <<34>> \o Join([i \in DOMAIN str |-> Escaped(str[i])], <<>>) \o <<34>>

\* The text of the value a plan describes.
ExpectedText(d) ==
    CASE d.root = "string" -> Quoted(d.str)
      [] d.root = "array" ->
           <<91>> \o Join([i \in DOMAIN d.parts |-> Quoted(d.parts[i].str)], <<44>>)
           \o <<93>>
      [] d.root = "object" ->
           <<123>> \o Join([i \in DOMAIN d.parts |->
                               Quoted(d.parts[i].key) \o <<58>> \o Quoted(d.parts[i].str)],
                           <<44>>)
           \o <<125>>
      [] OTHER -> <<>>

\* The C library refused an allocation request of the call that returned last.
Refused == mem.fail > 0 /\ mem.n >= mem.fail

\* C11: when a buffer allocation or growth fails during rjson_serialize, the
\* appending of a quote included, rjson_serialize returns -1; and whenever it
\* returns 0 the output is the whole text of the value, no byte missing.
C11_FailureReported ==
    Encoded =>
        /\ Refused => ret = -1
        /\ ret = 0 => Str(mem, out.str) = ExpectedText(doc)

\* out and len as the caller initialised them.
AsSet == [str |-> 0, len |-> 0]

\* C12: whenever rjson_serialize returns -1 (a NULL argument, a non-finite
\* number, a node at depth RJSON_MAX_DEPTH, a refused allocation), out and len
\* are as the caller set them, the buffer of the call has been freed (the
\* heap holds the blocks it held before, nothing was freed twice), and the
\* encoder returns nothing but 0 or -1; when it returns 0 the arguments were
\* not NULL, out is a live buffer the caller did not have before, and len is
\* written exactly when out_length is not NULL.
C12_NothingOnFailure ==
    Encoded =>
        /\ ret \in {0, -1}
        /\ ret = -1 =>
              /\ out = AsSet
              /\ Live(mem) = Live(call.pre)
              /\ mem.faults = {}
        /\ (~call.key.value \/ ~call.key.out_string) => ret = -1
        /\ ret = 0 =>
              /\ out.str \in Live(mem) \ Live(call.pre)
              /\ Live(mem) = Live(call.pre) \cup {out.str}
              /\ out.len = IF call.key.out_length THEN Len(Str(mem, out.str)) ELSE 0

\* The growth of the buffer was refused where the code looks at the result:
\* the partial buffer was freed and out is still NULL.
C12_Witness ==
    /\ Encoded /\ ret = -1 /\ Refused
    /\ sb.buffer # 0 /\ ~mem.heap[sb.buffer].live
    /\ Len(Str(mem, sb.buffer)) >= 1
    /\ out = AsSet

(***************************************************************************)
(* Caller 6: fill an array or an object by adds, some of them refused      *)
(* memory, look keys up, encode the container, release it                  *)
(***************************************************************************)
\* How many adds a caller makes.
MaxMembers == 2

\* The largest number of the allocation request an add is refused.
MaxAddFail == 3

MemberKeys == {B(<<"a">>), B(<<"b">>)}

MemberKinds == {"bool", "number", "string"}

\* The keys looked up: NULL and a key no member has among them.
LookupKeys == MemberKeys \cup {B(<<"c">>), NoString}

\* A member the caller knows to be in the container: its key (NoString in an
\* array), the node, the node's value and the text the value is written as.
Member(key, child, v, t) == [key |-> key, child |-> child, v |-> v, text |-> t]

\* The text of the node NewNode makes for a kind.
ChildText(kind) ==
    CASE kind = "bool" -> B(<<"t", "r", "u", "e">>)
      [] kind = "number" -> B(<<"-", "1", ".", "5">>)
      [] kind = "string" -> B(<<"\"", "a", "\\", "n", "\"">>)

\* The number a text of one digit spells.
Digit(n) == AV("RJSON_NUMBER", 0, Normalise(0, n, 0), <<>>)

\* What the caller starts from: an empty container it makes, or the object
\* rjson_parse makes of a text; log holds the members the text spells.
Container(root) == [root |-> root, text |-> <<>>, log |-> <<>>]

ObjDocs ==
    { Container("object"),
      Container("array"),
      [root |-> "parsed",
       text |-> B(<<"{", "\"", "a", "\"", ":", "1", ",", "\"", "a", "\"", ":", "2", "}">>),
       log |-> <<Member(B(<<"a">>), 0, Digit(1), B(<<"1">>)),
                 Member(B(<<"a">>), 0, Digit(2), B(<<"2">>))>>] }

\* hist.log: the members the caller has put into the container, in order.
InitObj ==
    /\ mem = EmptyMem
    /\ deep = NoDepth
    /\ ret = 0
    /\ retv = AVNull
    /\ text = <<>>
    /\ pos = 1
    /\ sb = [buffer |-> 0, length |-> 0, capacity |-> 0]
    /\ phase = "start"
    /\ tree1 = NoTree
    /\ out = [str |-> 0, len |-> 0]
    /\ tree2 = NoTree
    /\ roots = {}
    /\ call = NoCall
    /\ chain = [root |-> 0, current |-> 0, i |-> 0]
    /\ doc \in ObjDocs
    /\ hist = [adds |-> 0, failed |-> FALSE, log |-> doc.log]
    /\ env \in {e \in Envs : e.underflowErange}

\* child = constructor; rc = rjson_object_add(root, key, child) or
\* rjson_array_add(root, child), the f-th allocation request of the add
\* failing (0: none); if (rc != 0) rjson_free(child).
AddMember ==
    /\ phase = "build" /\ hist.adds < MaxMembers
    /\ \E key \in (IF doc.root = "array" THEN {NoString} ELSE MemberKeys),
          kind \in MemberKinds, f \in 0..MaxAddFail :
       \E nx \in {NewNode(Entering(mem, 0), kind)} :
       \E ad \in {IF doc.root = "array"
                  THEN rjson_array_add(Entering(nx.m, f), chain.root, nx.p)
                  ELSE rjson_object_add(Entering(nx.m, f), chain.root, key, nx.p)} :
       \E m2 \in {IF ad.rc = 0 THEN ad.m
                  ELSE Complete(Start(<<CallFree(nx.p)>>, ad.m, text)).mem} :
         /\ mem' = Leaving(m2)
         /\ hist' = [hist EXCEPT
                        !.adds = @ + 1,
                        !.failed = @ \/ ad.rc # 0,
                        !.log = IF ad.rc # 0 THEN @
                                ELSE Append(@, Member(key, nx.p, TreeOf(nx.m, nx.p),
                                                      ChildText(kind)))]
         /\ call' = [NoCall EXCEPT !.op = "add", !.container = chain.root,
                                   !.child = nx.p, !.key = key, !.rc = ad.rc,
                                   !.pre = mem]
    /\ UNCHANGED <<env, deep, ret, retv, text, pos, sb, phase, doc, tree1, out, tree2,
                   roots, chain>>

\* v = rjson_object_get_value(o, key), o being the container or NULL.
GetValue ==
    /\ phase = "build"
    /\ \E o \in {chain.root, 0}, key \in LookupKeys :
         call' = [NoCall EXCEPT !.op = "get", !.container = o, !.key = key,
                                !.rc = rjson_object_get_value(mem, o, key),
                                !.pre = mem]
    /\ UNCHANGED <<mem, env, deep, ret, retv, text, pos, sb, phase, doc, tree1, out,
                   tree2, hist, roots, chain>>

\* result = rjson_serialize(root, &out, &len).
EncodeBuilt ==
    /\ phase = "build"
    /\ phase' = "encode"
    /\ \E r \in {Complete(Start(<<Frame("rjson_serialize", "entry", chain.root, 0)>>,
                                Entering(mem, 0), text))} : Return(r)
    /\ UNCHANGED <<env, doc, tree1, tree2, hist, roots, call, chain>>

NextObj ==
    \/ NewValue
    \/ ParseValue
    \/ AddMember
    \/ GetValue
    \/ EncodeBuilt
    \/ FreeChain

SpecObj == InitObj /\ [][NextObj]_vars

(***************************************************************************)
(* Properties of caller 6 (SpecObj)                                        *)
(***************************************************************************)
\* rjson_object_get_value has returned call.rc.
Looked == call.op = "get"

\* The places in the log of the members with the key looked up.
Hits == {i \in 1..Len(hist.log) : hist.log[i].key = call.key}

\* The first of them.
FirstHit == CHOOSE i \in Hits : \A j \in Hits : i <= j

\* C13: the object holds every member added, duplicates of a key included,
\* in the order of the adds; rjson_object_get_value returns the value of the
\* first member, in that order, whose key equals the argument, and NULL when
\* no key equals it, when the key or the object argument is NULL and when the
\* container is not an object (no add having failed before).
C13_FirstMatch ==
    (phase = "build" /\ ~hist.failed) =>
        LET o == mem.heap[chain.root].data
        IN  /\ o.count = Len(hist.log)
            /\ doc.root # "array" =>
                  \A i \in 1..o.count :
                     /\ Str(mem, Slot(mem, o.keys, i)) = hist.log[i].key
                     /\ TreeOf(mem, Slot(mem, o.values, i)) = hist.log[i].v
            /\ Looked =>
                  IF call.container = 0 \/ doc.root = "array" \/ call.key = NoString
                     \/ Hits = {}
                  THEN call.rc = 0
                  ELSE /\ call.rc = Slot(mem, o.values, FirstHit)
                       /\ TreeOf(mem, call.rc) = hist.log[FirstHit].v
                       /\ call.rc \in {hist.log[FirstHit].child, Slot(mem, o.values, 1)}

\* The key of two members was looked up in the object parsed from
\* {"a":1,"a":2}, and the number 1 came back.
C13_Witness ==
    /\ Looked /\ doc.root = "parsed" /\ ~hist.failed
    /\ mem.heap[chain.root].data.count = 2
    /\ Cardinality(Hits) = 2
    /\ call.rc # 0
    /\ TreeOf(mem, call.rc) = Digit(1)

\* The text of the container with the members of the log, in order.
LogText ==
    IF doc.root = "array"
    THEN <<91>> \o Join([i \in DOMAIN hist.log |-> hist.log[i].text], <<44>>) \o <<93>>
    ELSE <<123>>
         \o Join([i \in DOMAIN hist.log |->
                     Quoted(hist.log[i].key) \o <<58>> \o hist.log[i].text], <<44>>)
         \o <<125>>

Bom == <<239, 187, 191>>

\* A text put together from: what precedes the value (byte order marks),
\* whitespace, the value (none: <<>>), whitespace, and what follows.  ok: the
\* text is at most one byte order mark, then one value in optional
\* whitespace; plain: the text without its leading byte order mark.
TopDoc(pre, ws1, core, ws2, tail) ==
    [text |-> pre \o ws1 \o core \o ws2 \o tail,
     plain |-> (IF Len(pre) >= 3 /\ SubSeq(pre, 1, 3) = Bom
                THEN SubSeq(pre, 4, Len(pre)) ELSE pre)
               \o ws1 \o core \o ws2 \o tail,
     core |-> core,
     marked |-> pre = Bom,
     ok |-> pre \in {<<>>, Bom} /\ core # <<>> /\ tail = <<>>]

TopPres == {<<>>, Bom, Bom \o Bom, <<32>> \o Bom}

TopSpaces == {<<>>, <<32, 9, 10, 13>>}

TopCores ==
    { B(<<"{", "}">>), B(<<"[", "1", ",", "2", "]">>), B(<<"\"", "x", "\"">>),
      B(<<"-", "1", ".", "5">>), B(<<"t", "r", "u", "e">>),
      B(<<"{", "\"", "a", "\"", ":", "[", "n", "u", "l", "l", "]", "}">>) }

\* What follows the value: nothing, garbage, a separator, a second value, a
\* byte order mark, a form feed.
TopTails ==
    { <<>>, B(<<"g", "a", "r", "b", "a", "g", "e">>), B(<<",">>), B(<<"{", "}">>),
      B(<<"]">>), Bom, B(<<"\f">>) }

TopDocs ==
    {TopDoc(pre, ws1, core, ws2, tail) :
        pre \in TopPres, ws1 \in TopSpaces, core \in TopCores, ws2 \in TopSpaces,
        tail \in TopTails}
    \cup {TopDoc(pre, ws1, <<>>, <<>>, <<>>) : pre \in TopPres, ws1 \in TopSpaces}

InitTop ==
    /\ InitCaller
    /\ doc \in TopDocs
    /\ env \in Envs

\* The first result is kept; val2 = rjson_parse(plain), the text without its
\* byte order mark.
DecodePlain ==
    /\ Decoded
    /\ phase' = "redecode"
    /\ tree1' = IF ret = 0 THEN NoTree ELSE [p |-> ret, v |-> retv]
    /\ hist' = [hist EXCEPT !.dec = IF ret = 0 THEN "null" ELSE "ok"]
    /\ \E r \in {Complete(Start(<<Frame("rjson_parse", "entry", 0, 0)>>,
                                Entering(mem, 0), doc.plain))} : Return(r)
    /\ UNCHANGED <<env, doc, out, tree2, roots, call, chain>>

NextTop ==
    \/ DecodeDoc
    \/ DecodePlain
    \/ Finish

SpecTop == InitTop /\ [][NextTop]_vars

(***************************************************************************)
(* Properties of caller 7 (SpecTop)                                        *)
(***************************************************************************)
\* C15: rjson_parse returns a tree exactly for the texts that are, after at
\* most one leading byte order mark, one value in optional whitespace up to
\* the terminator: empty and whitespace-only texts, anything after the value
\* and a second byte order mark give NULL; and a text with a leading byte
\* order mark gives the tree of the text without it.  Nothing stays allocated
\* when NULL is returned.
C15_TopLevel ==
    /\ Decoded =>
          /\ ret # 0 <=> doc.ok
          /\ ret = 0 => Live(mem) = {}
          /\ mem.faults = {}
    /\ phase = "release" =>
          /\ hist.dec = "ok" <=> doc.ok
          /\ doc.marked => (hist.redec = hist.dec /\ tree2.v = tree1.v)
          /\ Live(mem) = {}

\* A text with a byte order mark and the same text without it gave the same
\* array.
C15_Witness ==
    /\ phase = "release" /\ doc.marked /\ doc.ok
    /\ hist.dec = "ok" /\ hist.redec = "ok"
    /\ tree1.v = tree2.v
    /\ tree1.v.nodes[1].type = "RJSON_ARRAY"

(***************************************************************************)
(* Caller 8: one token as the whole text, given to parse_value and to      *)
(* rjson_parse                                                             *)
(***************************************************************************)
\* The length of the longest text put together from the bytes of numbers.
MaxNumLen == 4

\* - + 0 1 . e E
NumBytes == {45, 43, 48, 49, 46, 101, 69}

NumDocs ==
    {[kind |-> "number", text |-> t] :
        t \in UNION {[1..k -> NumBytes] : k \in 1..MaxNumLen}}

\* A number of the grammar with what its conversion to binary64 does: over
\* (the magnitude is beyond the largest finite binary64, the conversion
\* overflows), zero (the number is not zero and closer to zero than to the
\* smallest subnormal, the conversion underflows to zero).
RangeDoc(t, over, zero) == [kind |-> "range", text |-> B(t), over |-> over, zero |-> zero]

RangeDocs ==
    { RangeDoc(<<"1", "e", "3", "0", "9">>, TRUE, FALSE),
      RangeDoc(<<"-", "1", "e", "3", "0", "9">>, TRUE, FALSE),
      RangeDoc(<<"1", "E", "+", "4", "0", "0">>, TRUE, FALSE),
      RangeDoc(<<"2", "e", "3", "0", "8">>, TRUE, FALSE),
      RangeDoc(<<"1", ".", "8", "e", "3", "0", "8">>, TRUE, FALSE),
      RangeDoc(<<"1", "8", "0", "0", "e", "3", "0", "5">>, TRUE, FALSE),
      RangeDoc(<<"1", "e", "-", "4", "0", "0">>, FALSE, TRUE),
      RangeDoc(<<"-", "1", "e", "-", "4", "0", "0">>, FALSE, TRUE),
      RangeDoc(<<"1", "e", "-", "3", "2", "4">>, FALSE, TRUE),
      RangeDoc(<<"2", "e", "-", "3", "2", "4">>, FALSE, TRUE),
      RangeDoc(<<"0", ".", "0", "0", "1", "E", "-", "4", "0", "0">>, FALSE, TRUE),
      RangeDoc(<<"1", "e", "-", "9", "9", "9">>, FALSE, TRUE),
      RangeDoc(<<"1", "e", "3", "0", "8">>, FALSE, FALSE),
      RangeDoc(<<"-", "1", ".", "7", "e", "3", "0", "8">>, FALSE, FALSE),
      RangeDoc(<<"1", "e", "-", "3", "0", "7">>, FALSE, FALSE),
      RangeDoc(<<"3", "e", "-", "3", "2", "4">>, FALSE, FALSE),
      RangeDoc(<<"1", "e", "-", "3", "1", "0">>, FALSE, FALSE),
      RangeDoc(<<"0", "e", "-", "4", "0", "0">>, FALSE, FALSE),
      RangeDoc(<<"0", ".", "0", "e", "9", "9", "9">>, FALSE, FALSE) }

\* A \uHHHH escape: its four digits and the number they write.
Unit(hex, val) == [hex |-> B(hex), val |-> val]

Units ==
    { Unit(<<"0", "0", "0", "0">>, 0),     Unit(<<"0", "0", "0", "1">>, 1),
      Unit(<<"0", "0", "4", "1">>, 65),    Unit(<<"0", "0", "7", "f">>, 127),
      Unit(<<"0", "0", "8", "0">>, 128),   Unit(<<"0", "7", "F", "F">>, 2047),
      Unit(<<"0", "8", "0", "0">>, 2048),  Unit(<<"d", "7", "f", "f">>, 55295),
      Unit(<<"D", "8", "0", "0">>, 55296), Unit(<<"d", "8", "3", "d">>, 55357),
      Unit(<<"D", "B", "F", "F">>, 56319), Unit(<<"D", "C", "0", "0">>, 56320),
      Unit(<<"d", "e", "0", "0">>, 56832), Unit(<<"D", "F", "F", "F">>, 57343),
      Unit(<<"e", "0", "0", "0">>, 57344), Unit(<<"f", "f", "f", "f">>, 65535) }

\* The units that meet in runs of three.
FewUnits ==
    {u \in Units : u.val \in {65, 55296, 55357, 56320, 56832, 57344}}

RECURSIVE EscapesOf(_)
EscapesOf(us) ==
    IF us = <<>> THEN <<>>
    ELSE <<92, 117>> \o us[1].hex \o EscapesOf(Tail(us))

\* A string of one to three \uHHHH escapes between the bytes pre and post.
UnicodeDoc(pre, us, post) ==
    [kind |-> "unicode", text |-> <<34>> \o pre \o EscapesOf(us) \o post \o <<34>>,
     pre |-> pre, units |-> us, post |-> post]

UnicodeDocs ==
    {UnicodeDoc(pre, us, post) :
        pre \in {<<>>, <<97>>},
        us \in [1..1 -> Units] \cup [1..2 -> Units] \cup [1..3 -> FewUnits],
        post \in {<<>>, <<98>>}}

\* What may follow a high surrogate other than the escape of a low one.
LoneTails ==
    { <<>>, B(<<"x">>), B(<<"\\", "n">>), B(<<"u", "D", "C", "0", "0">>),
      B(<<"\\", "\\", "u", "D", "C", "0", "0">>),
      B(<<" ", "\\", "u", "D", "C", "0", "0">>),
      B(<<"\\", "u", "D", "C", "0">>), B(<<"\\", "u", "D", "C", "0", "g">>),
      B(<<"\\", "u", "D", "C", "0", "g", "0">>),
      B(<<"\\", "/", "D", "C", "0", "0">>),
      B(<<"\\", "u", "0", "0", "4", "1">>), B(<<"\\", "u", "d", "8", "3", "d">>) }

LoneDocs ==
    {[kind |-> "lone", text |-> <<34>> \o EscapesOf(<<u>>) \o tail \o <<34>>,
      high |-> u.val] :
        u \in {v \in Units : v.val >= 55296 /\ v.val <= 56319}, tail \in LoneTails}

\* A text starting with a quote, with what the decoder is to make of it:
\* ok and the bytes of the string.
StringDoc(t, ok, want) == [kind |-> "string", text |-> t, ok |-> ok, want |-> want]

\* The byte each two-character escape stands for.
Designated ==
    (34 :> 34) @@ (92 :> 92) @@ (47 :> 47) @@ (98 :> 8) @@ (102 :> 12) @@
    (110 :> 10) @@ (114 :> 13) @@ (116 :> 9)

\* One byte between a and b, as it is.
RawDocs ==
    {StringDoc(<<34, 97, c, 98, 34>>, c >= 32, <<97, c, 98>>) :
        c \in (1..255) \ {34, 92}}

\* One byte between a and b, after a backslash.
EscapeDocs ==
    {StringDoc(<<34, 97, 92, c, 98, 34>>, c \in DOMAIN Designated,
               <<97, IF c \in DOMAIN Designated THEN Designated[c] ELSE 0, 98>>) :
        c \in 1..255}

\* \u with fewer than four hexadecimal digits after it.
ShortTails ==
    { <<>>, B(<<"1">>), B(<<"1", "2">>), B(<<"1", "2", "3">>),
      B(<<"1", "2", "g", "4">>), B(<<"1", "2", "3", "g">>),
      B(<<"g", "1", "2", "3">>), B(<<"1", "2", " ", "4">>),
      B(<<"-", "1", "2", "3">>), B(<<"+", "1", "2", "3">>),
      B(<<" ", "1", "2", "3">>), B(<<"0", "x", "4", "1">>),
      B(<<"1", "2", "3", "\\", "\"", "4">>), B(<<"4", "1", "\\", "n">>) }

ShortDocs ==
    {StringDoc(<<34>> \o pre \o <<92, 117>> \o tail \o <<34>>, FALSE, <<>>) :
        pre \in {<<>>, <<97>>}, tail \in ShortTails}

\* Strings with no closing quote.
OpenDocs ==
    {StringDoc(t, FALSE, <<>>) :
        t \in { B(<<"\"">>), B(<<"\"", "a", "b", "c">>), B(<<"\"", "a", "\\", "\"">>),
                B(<<"\"", "a", "\\">>), B(<<"\"", "\\", "u", "0", "0", "4", "1">>),
                B(<<"\"", "a", "\\", "\\", "\\", "\"">>),
                B(<<"\"", "a", " ">>) }}

\* Strings of several bytes, escapes among them.
MixedDocs ==
    { StringDoc(<<34, 34>>, TRUE, <<>>),
      StringDoc(<<34, 195, 169, 34>>, TRUE, <<195, 169>>),
      StringDoc(<<34, 255, 254, 128, 127, 34>>, TRUE, <<255, 254, 128, 127>>),
      StringDoc(<<34, 240, 159, 152, 128, 92, 110, 237, 160, 128, 34>>, TRUE,
                <<240, 159, 152, 128, 10, 237, 160, 128>>),
      StringDoc(B(<<"\"", "\\", "\"", "\\", "\\", "\\", "/", "\\", "b", "\\", "f",
                   "\\", "n", "\\", "r", "\\", "t", "\"">>), TRUE,
                <<34, 92, 47, 8, 12, 10, 13, 9>>),
      StringDoc(B(<<"\"", "/", "\\", "\\", "n", "\\", "u", "0", "0", "4", "1", "\"">>),
                TRUE, <<47, 92, 110, 65>>),
      StringDoc(B(<<"\"", "a", "\\", "n", "\t", "\"">>), FALSE, <<>>),
      StringDoc(B(<<"\"", "a", "\\", "n", "\\", "x", "\"">>), FALSE, <<>>) }

StringDocs == RawDocs \cup EscapeDocs \cup ShortDocs \cup OpenDocs \cup MixedDocs

\* Pieces of string content that are well-formed UTF-8 as they stand: a
\* letter, U+00E9, U+20AC, U+1F525, U+10FFFF, U+D7FF, U+E000, U+0080, and
\* escapes.
GoodPieces ==
    { <<97>>, <<195, 169>>, <<226, 130, 172>>, <<240, 159, 148, 165>>,
      <<244, 143, 191, 191>>, <<237, 159, 191>>, <<238, 128, 128>>, <<194, 128>>,
      B(<<"\\", "u", "0", "0", "e", "9">>), B(<<"\\", "u", "2", "0", "A", "C">>),
      B(<<"\\", "u", "d", "8", "3", "d", "\\", "u", "d", "e", "0", "0">>),
      B(<<"\\", "u", "D", "B", "F", "F", "\\", "u", "D", "F", "F", "F">>),
      B(<<"\\", "u", "0", "0", "0", "1">>), B(<<"\\", "n">>), B(<<"\\", "\\">>) }

\* Pieces that are not: a byte that starts nothing, a lead byte alone, a
\* continuation byte alone, two overlong forms, a surrogate, a code point
\* beyond U+10FFFF, a truncated sequence, a five-byte form.
BadPieces ==
    { <<255>>, <<195>>, <<128>>, <<192, 128>>, <<192, 175>>, <<224, 128, 175>>,
      <<237, 160, 128>>, <<237, 191, 191>>, <<244, 144, 128, 128>>, <<226, 130>>,
      <<240, 159, 148>>, <<248, 136, 128, 128, 128>>, <<254>> }

\* One or two pieces as a string and as a key with the string as its value.
Utf8Doc(c) ==
    [kind |-> "utf8", text |-> <<34>> \o c \o <<34>>, content |-> c]

Utf8KeyDoc(c) ==
    [kind |-> "utf8",
     text |-> <<123, 34>> \o c \o <<34, 58, 91, 34>> \o c \o <<34, 93, 125>>,
     content |-> c]

Utf8Docs ==
    UNION {{Utf8Doc(a), Utf8KeyDoc(a), Utf8Doc(a \o b), Utf8KeyDoc(a \o b)} :
              a \in GoodPieces \cup BadPieces, b \in GoodPieces \cup BadPieces}

\* Texts that end where the decoder looks ahead: every prefix of an array
\* of literals, of an object with escapes, a pair of surrogates and numbers,
\* and of a text behind a byte order mark; literals with a wrong or a missing
\* byte, a hexadecimal constant.
Prefixes(t) == {SubSeq(t, 1, n) : n \in 0..Len(t)}

EdgeTexts ==
    Prefixes(<<32, 91, 32, 116, 114, 117, 101, 32, 44, 32, 102, 97, 108, 115, 101,
        32, 44, 32, 110, 117, 108, 108, 32, 93, 32>>)
    \cup Prefixes(<<123, 34, 97, 92, 110, 34, 58, 34, 92, 117, 68, 56, 51, 68, 92, 117,
        68, 69, 48, 48, 92, 117, 50, 48, 97, 99, 92, 47, 34, 44, 34, 98, 34,
        58, 91, 45, 49, 46, 53, 101, 43, 51, 44, 48, 93, 125>>)
    \cup Prefixes(<<239, 187, 191, 34, 120, 34>>)
    \cup {<<116, 114, 117, 120>>, <<110, 117, 108, 76>>, <<102, 97, 108, 115, 69>>, <<48, 120, 49, 70>>, <<45, 48, 88, 49, 102>>, <<34, 92, 117, 49, 50, 34>>}

EdgeDocs == {[kind |-> "edge", text |-> t] : t \in EdgeTexts}

TokDocs ==
    NumDocs \cup RangeDocs \cup UnicodeDocs \cup LoneDocs \cup StringDocs \cup Utf8Docs
    \cup EdgeDocs

\* Nothing is resized here, so one kind of realloc is enough.
InitTok ==
    /\ InitCaller
    /\ doc \in TokDocs
    /\ env \in {e \in Envs : e.moves /\ e.zeroFrees}

\* const char *p = text; val = parse_value(&p, 0).
Tokenize ==
    /\ phase = "start"
    /\ phase' = "decode"
    /\ \E r \in {Complete(Start(<<Frame("parse_value", "entry", 0, 0)>>,
                                Entering(mem, 0), doc.text))} : Return(r)
    /\ call' = [NoCall EXCEPT !.op = "parse_value"]
    /\ UNCHANGED <<env, doc, tree1, tree2, hist, roots, chain>>

NextTok ==
    \/ Tokenize
    \/ DecodeDoc
    \/ GiveUp
    \/ Discard

SpecTok == InitTok /\ [][NextTok]_vars

(***************************************************************************)
(* Properties of caller 8 (SpecTok)                                        *)
(***************************************************************************)
\* parse_value has returned, the cursor being pos.
Tokenized == Decoded /\ call.op = "parse_value"

\* rjson_parse has returned.
Parsed == Decoded /\ call.op = "none"

\* The string of the node returned.
Decoding == retv.nodes[1].s

\* The number grammar of RFC 8259.
IsDigits(t) == t # <<>> /\ \A i \in DOMAIN t : t[i] \in 48..57

IsInt(t) == t = <<48>> \/ (IsDigits(t) /\ t[1] # 48)

IsFrac(t) == Len(t) >= 2 /\ t[1] = 46 /\ IsDigits(Tail(t))

IsExp(t) ==
    /\ Len(t) >= 2
    /\ t[1] \in {101, 69}
    /\ \/ IsDigits(Tail(t))
       \/ t[2] \in {43, 45} /\ IsDigits(Tail(Tail(t)))

\* t is: [ "-" ] int [ frac ] [ exp ].
IsNumber(t) ==
    LET u == IF t # <<>> /\ t[1] = 45 THEN Tail(t) ELSE t
    IN  \E a \in 1..Len(u), b \in 1..Len(u) :
           /\ a <= b
           /\ IsInt(SubSeq(u, 1, a))
           /\ a = b \/ IsFrac(SubSeq(u, a + 1, b))
           /\ b = Len(u) \/ IsExp(SubSeq(u, b + 1, Len(u)))

\* The length of the longest number t starts with, 0 if it starts with none.
LongestNumber(t) ==
    LET S == {q \in 1..Len(t) : IsNumber(SubSeq(t, 1, q))}
    IN  IF S = {} THEN 0 ELSE CHOOSE q \in S : \A r \in S : r <= q

\* C16: a text of the bytes - + 0 1 . e E is decoded by rjson_parse exactly
\* when it is a number of the grammar [ "-" ] int [ frac ] [ exp ]; given
\* to parse_value it is accepted when it is such a number, and whenever
\* parse_value accepts, the node is a number and the cursor is just after the
\* longest number the text starts with.
C16_NumberGrammar ==
    doc.kind = "number" =>
        /\ Parsed => (ret # 0 <=> IsNumber(doc.text))
        /\ Tokenized =>
              /\ IsNumber(doc.text) => (ret # 0 /\ pos = Len(doc.text) + 1)
              /\ ret # 0 =>
                    /\ retv.nodes[1].type = "RJSON_NUMBER"
                    /\ pos > 1
                    /\ pos - 1 = LongestNumber(doc.text)

\* -0.0 was accepted, the cursor at its end.
C16_Witness ==
    /\ Tokenized /\ ret # 0
    /\ doc.text = B(<<"-", "0", ".", "0">>)
    /\ pos = 5

\* C17: a number of the grammar whose conversion overflows makes the decoder
\* return NULL; one whose conversion underflows to zero is decoded, to the
\* number zero, whether or not the C library reports a range error for it.
C17_Range ==
    (Decoded /\ doc.kind = "range") =>
        /\ doc.over => ret = 0
        /\ doc.zero =>
              /\ ret # 0
              /\ retv.nodes[1].type = "RJSON_NUMBER"
              /\ retv.nodes[1].num.mant = 0

\* The code points a run of \uHHHH escapes stands for: [ok, cps, len], len
\* the number of bytes they take in UTF-8.
IsHigh(v) == v >= 55296 /\ v <= 56319

IsLow(v) == v >= 56320 /\ v <= 57343

RECURSIVE Want(_)
Want(us) ==
    IF us = <<>> THEN [ok |-> TRUE, cps |-> <<>>, len |-> 0]
    ELSE IF Len(us) >= 2 /\ IsHigh(us[1].val) /\ IsLow(us[2].val)
    THEN LET w == Want(Tail(Tail(us)))
         IN  [ok |-> w.ok,
              cps |-> <<65536 + (us[1].val - 55296) * 1024 + (us[2].val - 56320)>> \o w.cps,
              len |-> 4 + w.len]
    ELSE IF IsHigh(us[1].val) \/ IsLow(us[1].val) \/ us[1].val = 0
    THEN [ok |-> FALSE, cps |-> <<>>, len |-> 0]
    ELSE LET w == Want(Tail(us))
         IN  [ok |-> w.ok, cps |-> <<us[1].val>> \o w.cps,
              len |-> (IF us[1].val < 128 THEN 1 ELSE IF us[1].val < 2048 THEN 2 ELSE 3)
                      + w.len]

\* The code points of a UTF-8 text, <<-1>> at the end where it is malformed.
RECURSIVE CodePoints(_)
CodePoints(d) ==
    IF d = <<>> THEN <<>>
    ELSE
    LET b == d[1]
        n == IF b < 128 THEN 1 ELSE IF b \in 192..223 THEN 2
             ELSE IF b \in 224..239 THEN 3 ELSE IF b \in 240..247 THEN 4 ELSE 0
        cont(i) == i <= Len(d) /\ d[i] \in 128..191
        cp == CASE n = 1 -> b
                [] n = 2 -> (b - 192) * 64 + (d[2] - 128)
                [] n = 3 -> (b - 224) * 4096 + (d[2] - 128) * 64 + (d[3] - 128)
                [] n = 4 -> (b - 240) * 262144 + (d[2] - 128) * 4096
                            + (d[3] - 128) * 64 + (d[4] - 128)
        least == CASE n = 1 -> 0 [] n = 2 -> 128 [] n = 3 -> 2048 [] n = 4 -> 65536
    IN  IF n = 0 \/ ~(\A i \in 2..n : cont(i)) THEN <<-1>>
        ELSE IF cp < least THEN <<-1>>
        ELSE <<cp>> \o CodePoints(SubSeq(d, n + 1, Len(d)))

C19_Strings ==
    (Decoded /\ doc.kind = "string") =>
        /\ ret # 0 <=> doc.ok
        /\ ret # 0 =>
              /\ retv.nodes[1].type = "RJSON_STRING"
              /\ Decoding = doc.want
        /\ (Tokenized /\ ret # 0) => pos = Len(doc.text) + 1

\* The eight two-character escapes in one string.
C19_Witness ==
    /\ Parsed /\ ret # 0
    /\ doc.kind = "string"
    /\ Len(doc.text) = 18
    /\ Decoding = <<34, 92, 47, 8, 12, 10, 13, 9>>

\* C20: the text rjson_serialize hands out has every string and every object
\* key as a quote, the body and a quote, the body having \" for a quote, \\
\* for a backslash, \b \f \n \r \t for 0x08 0x0C 0x0A 0x0D 0x09, \u00XX in
\* lower-case hexadecimal for any other byte below 0x20 and every other byte
\* as it is; no byte of the text is below 0x20.
C20_Escaping ==
    (Encoded /\ ret = 0) =>
        LET written == Str(mem, out.str)
        IN  /\ written = ExpectedText(doc)
            /\ \A i \in DOMAIN written : written[i] >= 32

(***************************************************************************)
(* Caller 9: texts put together from tokens                                *)
(***************************************************************************)
\* The tokens ts with the bytes gs[i] before token i and gs[Len(ts) + 1]
\* after the last one.
RECURSIVE Weave(_, _)
Weave(ts, gs) ==
    IF ts = <<>> THEN gs[1]
    ELSE gs[1] \o ts[1] \o Weave(Tail(ts), Tail(gs))

\* The tokens one after the other.
Plain(ts) == Weave(ts, [i \in 1..(Len(ts) + 1) |-> <<>>])

TokOpen == <<91>>

TokClose == <<93>>

TokLBrace == <<123>>

TokRBrace == <<125>>

TokComma == <<44>>

TokColon == <<58>>

TokOne == <<49>>

TokStr == <<34, 97, 34>>

\* Valid texts as token sequences: [1,"a"], {"a":1,"a":[]}, 1, "a", [{"a":[1]}].
Skeletons ==
    { <<TokOpen, TokOne, TokComma, TokStr, TokClose>>,
      <<TokLBrace, TokStr, TokColon, TokOne, TokComma, TokStr, TokColon, TokOpen,
        TokClose, TokRBrace>>,
      <<TokOne>>,
      <<TokStr>>,
      <<TokOpen, TokLBrace, TokStr, TokColon, TokOpen, TokOne, TokClose, TokRBrace,
        TokClose>> }

\* Runs of the four whitespace bytes.
WhiteGaps ==
    {<<32>>, <<9>>, <<10>>, <<13>>, <<32, 9, 10, 13>>, <<13, 10, 32, 32>>}

\* Runs with a byte that is no whitespace of JSON and starts no token.
OtherGaps ==
    {<<b>> : b \in ((1..31) \ {9, 10, 13}) \cup {127, 133, 160}}
    \cup {<<32, 11>>, <<12, 32>>, <<11, 10>>, <<32, 12, 9>>}

\* The run gap at token boundary at (0: before the first token), or at every
\* boundary (at = -1).
GapDoc(ts, at, gap) ==
    [kind |-> "gap",
     text |-> Weave(ts, [i \in 1..(Len(ts) + 1) |->
                            IF at = -1 \/ at = i - 1 THEN gap ELSE <<>>]),
     plain |-> Plain(ts), tokens |-> ts, at |-> at, gap |-> gap]

GapDocs ==
    UNION {{GapDoc(ts, at, gap) : at \in (-1)..Len(ts), gap \in WhiteGaps \cup OtherGaps} :
              ts \in Skeletons}

\* The longest token sequences that are all tried.
MaxTokens == 4

Tokens == {TokOpen, TokClose, TokLBrace, TokRBrace, TokComma, TokColon, TokOne, TokStr}

\* Longer sequences around the rules of arrays and objects.
LongerSeqs ==
    { <<TokOpen, TokOne, TokComma, TokOne, TokClose>>,
      <<TokOpen, TokOne, TokComma, TokOne, TokComma, TokClose>>,
      <<TokOpen, TokOne, TokComma, TokComma, TokOne, TokClose>>,
      <<TokOpen, TokComma, TokOne, TokComma, TokOne, TokClose>>,
      <<TokOpen, TokOne, TokColon, TokOne, TokClose>>,
      <<TokOpen, TokOne, TokComma, TokOne, TokRBrace>>,
      <<TokOpen, TokOpen, TokOne, TokClose, TokComma, TokOpen, TokClose, TokClose>>,
      <<TokOpen, TokOpen, TokOne, TokClose, TokOpen, TokClose, TokClose>>,
      <<TokOpen, TokOpen, TokOne, TokClose, TokClose, TokClose>>,
      <<TokLBrace, TokStr, TokColon, TokOne, TokRBrace>>,
      <<TokLBrace, TokStr, TokColon, TokOne, TokComma, TokRBrace>>,
      <<TokLBrace, TokStr, TokColon, TokOne, TokComma>>,
      <<TokLBrace, TokStr, TokColon, TokOne, TokClose>>,
      <<TokLBrace, TokStr, TokComma, TokOne, TokRBrace>>,
      <<TokLBrace, TokOne, TokColon, TokOne, TokRBrace>>,
      <<TokLBrace, TokOpen, TokClose, TokColon, TokOne, TokRBrace>>,
      <<TokLBrace, TokStr, TokColon, TokColon, TokOne, TokRBrace>>,
      <<TokLBrace, TokStr, TokColon, TokOne, TokComma, TokStr, TokColon, TokStr,
        TokRBrace>>,
      <<TokLBrace, TokStr, TokColon, TokOne, TokStr, TokColon, TokStr, TokRBrace>>,
      <<TokLBrace, TokStr, TokColon, TokOne, TokComma, TokComma, TokStr, TokColon,
        TokStr, TokRBrace>>,
      <<TokLBrace, TokStr, TokColon, TokOne, TokComma, TokStr, TokRBrace>>,
      <<TokLBrace, TokStr, TokColon, TokOne, TokComma, TokOne, TokColon, TokOne,
        TokRBrace>>,
      <<TokLBrace, TokStr, TokColon, TokLBrace, TokStr, TokColon, TokOpen, TokClose,
        TokRBrace, TokRBrace>>,
      <<TokLBrace, TokStr, TokColon, TokLBrace, TokStr, TokColon, TokOpen, TokClose,
        TokRBrace>>,
      <<TokLBrace, TokStr, TokColon, TokOpen, TokOne, TokRBrace, TokClose>>,
      <<TokOpen, TokLBrace, TokStr, TokColon, TokOne, TokClose, TokRBrace>> }

\* Two numbers in a row read as one number when nothing is between them.
Splits(ts) == \A i \in 1..(Len(ts) - 1) : ~(ts[i] = TokOne /\ ts[i + 1] = TokOne)

\* The tokens one after the other, or with a space at every boundary.
StructDoc(ts, gap) ==
    [kind |-> "struct",
     text |-> Weave(ts, [i \in 1..(Len(ts) + 1) |-> gap]),
     plain |-> Weave(ts, [i \in 1..(Len(ts) + 1) |-> gap]),
     tokens |-> ts, at |-> -1, gap |-> gap]

StructDocs ==
    {StructDoc(ts, gap) :
        ts \in {q \in LongerSeqs \cup UNION {[1..k -> Tokens] : k \in 1..MaxTokens} :
                  Splits(q)},
        gap \in {<<>>}}
    \cup {StructDoc(ts, <<32>>) :
            ts \in LongerSeqs \cup UNION {[1..k -> Tokens] : k \in 1..MaxTokens}}

InitGram ==
    /\ InitCaller
    /\ doc \in GapDocs \cup StructDocs
    /\ env = DeepEnv

NextGram ==
    \/ DecodeDoc
    \/ DecodePlain
    \/ Finish

SpecGram == InitGram /\ [][NextGram]_vars

(***************************************************************************)
(* Properties of caller 9 (SpecGram)                                       *)
(***************************************************************************)
\* C21: with a run of the bytes 0x20, 0x09, 0x0A, 0x0D before, between or
\* after the tokens of a valid text, at one boundary or at all of them,
\* rjson_parse returns the tree of the text without the run; with a run that
\* holds a vertical tab, a form feed or another byte that is neither such
\* whitespace nor the start of a token, it returns NULL.
C21_Whitespace ==
    doc.kind = "gap" =>
        LET white == \A i \in DOMAIN doc.gap : doc.gap[i] \in {32, 9, 10, 13}
        IN  /\ Decoded => (ret # 0 <=> white)
            /\ phase = "release" =>
                  /\ hist.redec = "ok"
                  /\ white => (hist.dec = "ok" /\ tree1.v = tree2.v)
                  /\ Live(mem) = {}

\* {"a":1,"a":[]} with space, tab, line feed and carriage return at each of
\* its eleven boundaries.
C21_Witness ==
    /\ phase = "release" /\ doc.kind = "gap"
    /\ doc.at = -1 /\ doc.gap = <<32, 9, 10, 13>>
    /\ Len(doc.tokens) = 10
    /\ hist.dec = "ok" /\ tree1.v = tree2.v
    /\ tree1.v.nodes[1].type = "RJSON_OBJECT" /\ tree1.v.nodes[1].n = 2

\* The grammar of values over the tokens.
RECURSIVE IsValue(_), IsElements(_), IsMembers(_)
IsValue(ts) ==
    \/ ts \in {<<TokOne>>, <<TokStr>>}
    \/ /\ Len(ts) >= 2
       /\ ts[1] = TokOpen /\ ts[Len(ts)] = TokClose
       /\ (Len(ts) = 2 \/ IsElements(SubSeq(ts, 2, Len(ts) - 1)))
    \/ /\ Len(ts) >= 2
       /\ ts[1] = TokLBrace /\ ts[Len(ts)] = TokRBrace
       /\ (Len(ts) = 2 \/ IsMembers(SubSeq(ts, 2, Len(ts) - 1)))

\* One value, or values with one comma between each two.
IsElements(ts) ==
    \/ IsValue(ts)
    \/ \E k \in 2..(Len(ts) - 1) :
          /\ ts[k] = TokComma
          /\ IsValue(SubSeq(ts, 1, k - 1))
          /\ IsElements(SubSeq(ts, k + 1, Len(ts)))

\* One pair string : value, or pairs with one comma between each two.
IsMembers(ts) ==
    \/ /\ Len(ts) >= 3 /\ ts[1] = TokStr /\ ts[2] = TokColon
       /\ IsValue(SubSeq(ts, 3, Len(ts)))
    \/ \E k \in 4..(Len(ts) - 1) :
          /\ ts[k] = TokComma
          /\ ts[1] = TokStr /\ ts[2] = TokColon
          /\ IsValue(SubSeq(ts, 3, k - 1))
          /\ IsMembers(SubSeq(ts, k + 1, Len(ts)))

\* C22: rjson_parse returns a tree exactly for the token sequences of the
\* grammar: an array is [ then ] or values with single commas between them
\* then ], an object is { then } or string : value pairs with single commas
\* between them then }.  A comma before the closer, a missing comma or colon,
\* a key that is no string, a closer of the other kind and the end of the
\* text inside a container give NULL, and nothing stays allocated.
C22_Containers ==
    (Decoded /\ doc.kind = "struct") =>
        /\ ret # 0 <=> IsValue(doc.tokens)
        /\ ret = 0 => Live(mem) = {}
        /\ mem.faults = {}

\* {"a":1,"a":"a"} was taken and {"a":1,} was not.
C22_Witness ==
    /\ Decoded /\ doc.kind = "struct" /\ ret # 0
    /\ Len(doc.tokens) = 9 /\ doc.gap = <<>>
    /\ retv.nodes[1].type = "RJSON_OBJECT" /\ retv.nodes[1].n = 2

(***************************************************************************)
(* Caller 10: constructors, rjson_parse and adds of any node to any node   *)
(***************************************************************************)
\* How many constructor calls and how many adds this caller makes.
MaxShapeNodes == 2

MaxShapeAdds == 2

\* The text the caller parses: {"a":[1]}.
ShapeText ==
    B(<<"{", "\"", "a", "\"", ":", "[", "1", "]", "}">>)

\* The struct rjson_value blocks.
Values(m) == {p \in 1..Len(m.heap) : m.heap[p].kind = "value" /\ m.heap[p].live}

\* How many children node p has, and child i of it.
Count(m, p) ==
    IF m.heap[p].data.type \in {"RJSON_ARRAY", "RJSON_OBJECT"}
    THEN m.heap[p].data.count ELSE 0

Child(m, p, i) ==
    IF m.heap[p].data.type = "RJSON_ARRAY"
    THEN m.heap[m.heap[p].data.elements].data[i]
    ELSE m.heap[m.heap[p].data.values].data[i]

Kids(m, p) == {Child(m, p, i) : i \in 1..Count(m, p)}

\* S and what is reached from it in up to k steps down.
RECURSIVE Below(_, _, _)
Below(m, S, k) ==
    IF k = 0 THEN S
    ELSE Below(m, S \cup UNION {Kids(m, q) : q \in S}, k - 1)

\* The descendants of node p.
Descendants(m, p) == Below(m, Kids(m, p), Len(m.heap))

InitShape ==
    /\ mem = EmptyMem
    /\ deep = NoDepth
    /\ ret = 0
    /\ retv = AVNull
    /\ text = <<>>
    /\ pos = 1
    /\ sb = [buffer |-> 0, length |-> 0, capacity |-> 0]
    /\ phase = "start"
    /\ tree1 = NoTree
    /\ out = [str |-> 0, len |-> 0]
    /\ tree2 = NoTree
    /\ roots = {}
    /\ call = NoCall
    /\ chain = [root |-> 0, current |-> 0, i |-> 0]
    /\ doc = [text |-> ShapeText]
    /\ env \in {e \in Envs : e.underflowErange /\ e.zeroFrees}
    /\ hist = [made |-> 0, adds |-> 0, parsed |-> FALSE, misused |-> FALSE]

\* v = rjson_xxx_new(...); the caller builds its nodes before it adds any.
BuildNode ==
    /\ hist.made < MaxShapeNodes /\ hist.adds = 0
    /\ \E kind \in BuildKinds :
       \E r \in {NewNode(Entering(mem, 0), kind)} :
         /\ mem' = Leaving(r.m)
         /\ roots' = roots \cup {r.p}
         /\ call' = [NoCall EXCEPT !.op = "new", !.child = r.p, !.pre = mem]
    /\ hist' = [hist EXCEPT !.made = @ + 1]
    /\ UNCHANGED <<env, deep, ret, retv, text, pos, sb, phase, doc, tree1, out, tree2,
                   chain>>

\* v = rjson_parse(text); the first thing the caller does, if it does it.
ParseTree ==
    /\ ~hist.parsed /\ hist.made = 0 /\ hist.adds = 0
    /\ \E r \in {Complete(Start(<<Frame("rjson_parse", "entry", 0, 0)>>,
                                Entering(mem, 0), doc.text))} :
         /\ Return([r EXCEPT !.mem = Leaving(r.mem)])
         /\ roots' = roots \cup {r.ret}
         /\ call' = [NoCall EXCEPT !.op = "parse", !.child = r.ret, !.pre = mem]
    /\ hist' = [hist EXCEPT !.parsed = TRUE]
    /\ UNCHANGED <<env, phase, doc, tree1, tree2, chain>>

\* rc = rjson_array_add(c, e) or rjson_object_add(c, "k", e) for any two nodes
\* the caller has a pointer to, the f-th allocation request failing.  The
\* caller keeps to the ownership rule when it owns e and c is not inside e.
AddAny ==
    /\ hist.adds < MaxShapeAdds
    /\ \E c \in Values(mem), e \in Values(mem), op \in {"array_add", "object_add"},
          f \in {0, 3} :
       \E r \in {IF op = "array_add"
                 THEN rjson_array_add(Entering(mem, f), c, e)
                 ELSE rjson_object_add(Entering(mem, f), c, B(<<"k">>), e)} :
         /\ mem' = Leaving(r.m)
         /\ roots' = IF r.rc = 0 THEN roots \ {e} ELSE roots
         /\ call' = [NoCall EXCEPT !.op = op, !.container = c, !.child = e,
                                   !.rc = r.rc, !.pre = mem]
         /\ hist' = [hist EXCEPT
                        !.adds = @ + 1,
                        !.misused = @ \/ (r.rc = 0 /\ ~(e \in roots /\ c # e
                                                       /\ c \notin Descendants(mem, e)))]
    /\ UNCHANGED <<env, deep, ret, retv, text, pos, sb, phase, doc, tree1, out, tree2,
                   chain>>

NextShape ==
    \/ BuildNode
    \/ ParseTree
    \/ AddAny

SpecShape == InitShape /\ [][NextShape]_vars

(***************************************************************************)
(* Properties of caller 10 (SpecShape)                                     *)
(***************************************************************************)
\* The places node x is stored at: container and slot.
Places(m, x) ==
    {pl \in UNION {{<<p, i>> : i \in 1..Count(m, p)} : p \in Values(m)} :
        Child(m, pl[1], pl[2]) = x}

\* Every node is stored at most once, and no node is below itself.
Shaped(m) ==
    \A x \in Values(m) :
        /\ Cardinality(Places(m, x)) <= 1
        /\ x \notin Descendants(m, x)

WellFormed(d) ==
    LET cps == CodePoints(d)
    IN  \A i \in DOMAIN cps :
            /\ cps[i] >= 1 /\ cps[i] <= 1114111
            /\ ~(cps[i] >= 55296 /\ cps[i] <= 57343)

\* The strings and the keys of a tree.
Payloads(v) ==
    {v.nodes[i].s : i \in {j \in DOMAIN v.nodes :
                             v.nodes[j].type \in {"RJSON_STRING", "key"}}}

Spans(t) == {sp \in (1..(Len(t) + 1)) \X (1..(Len(t) + 1)) : sp[1] <= sp[2]}

\* C26: unescape_string never writes more than (in_end - in_start) payload
\* bytes and one terminator into its buffer: no write goes past the block,
\* every string block holds its bytes and the terminator; for every span the
\* bytes written are at most the span's, an escape of two bytes giving one,
\* a \uHHHH of six at most three and a surrogate pair of twelve four.
C26_NeverExpands ==
    Decoded =>
        /\ "buffer overflow" \notin mem.faults
        /\ \A p \in 1..Len(mem.heap) :
              mem.heap[p].kind = "chars" => Len(mem.heap[p].data) + 1 <= mem.heap[p].size
        /\ \A sp \in Spans(doc.text) :
              LET u == UnescapeLoop(doc.text, sp[1], sp[2], <<>>)
                  n == sp[2] - sp[1]
                  one == n >= 2 /\ doc.text[sp[1]] = 92 /\ u.ok
              IN  /\ Len(u.d) <= n
                  /\ (one /\ n = 2) => Len(u.d) = 1
                  /\ (one /\ n = 6 /\ doc.text[sp[1] + 1] = 117) => Len(u.d) \in 1..3
                  /\ (one /\ n = 12 /\ doc.text[sp[1] + 1] = 117
                          /\ Hex4(doc.text, sp[1] + 1) \in 55296..56319) => Len(u.d) = 4

\* A surrogate pair between two letters: fourteen bytes read, six written
\* and the terminator, into a block of fifteen.
C26_Witness ==
    /\ Parsed /\ ret # 0 /\ doc.kind = "unicode"
    /\ Len(doc.text) = 16 /\ Len(doc.units) = 2
    /\ retv.nodes[1].type = "RJSON_STRING" /\ Len(Decoding) = 6
    /\ mem.heap[mem.heap[ret].data.str_val].size = 15
    /\ mem.faults = {}

(***************************************************************************)
(* Caller 11 (SpecBuf): a byte buffer on its own.  strbuf_init with the    *)
(* capacity rjson_serialize asks for, then strbuf_append calls with data   *)
(* of several lengths, any allocation request failing.                     *)
(***************************************************************************)
MaxAppends == 3

\* The lengths of the data appended: nothing, one byte, what fills the first
\* block to the last byte, what needs one doubling and what needs two.
ChunkLens == {0, 1, 1023, 1025, 3072}

\* The k-th data appended is told from the others by its bytes.
Filler(n, k) == Rep(<<97 + k>>, n)

InitBuf ==
    /\ mem = EmptyMem
    /\ deep = NoDepth
    /\ ret = 0
    /\ retv = AVNull
    /\ text = <<>>
    /\ pos = 1
    /\ sb = [buffer |-> 0, length |-> 0, capacity |-> 0]
    /\ phase = "start"
    /\ tree1 = NoTree
    /\ out = [str |-> 0, len |-> 0]
    /\ tree2 = NoTree
    /\ roots = {}
    /\ call = [op |-> "none", data |-> <<>>, rc |-> 0, was |-> sb, pre |-> EmptyMem]
    /\ chain = [root |-> 0, current |-> 0, i |-> 0]
    /\ doc = [text |-> <<>>]
    /\ env \in Envs
    /\ hist = [appends |-> 0, refused |-> 0, grown |-> 0]

\* rc = strbuf_init(&sb, InitialCapacity), the f-th allocation request failing.
BufInit ==
    /\ phase = "start"
    /\ \E f \in 0..1 :
       \E r \in {strbuf_init(Entering(mem, f), InitialCapacity)} :
         /\ mem' = Leaving(r.m)
         /\ sb' = r.sb
         /\ ret' = r.rc
         /\ phase' = IF r.rc = 0 THEN "ready" ELSE "failed"
         /\ call' = [op |-> "init", data |-> <<>>, rc |-> r.rc, was |-> sb, pre |-> mem]
    /\ UNCHANGED <<env, deep, retv, text, pos, doc, tree1, out, tree2, hist, roots,
                   chain>>

\* rc = strbuf_append(&sb, data, len), the f-th allocation request failing.
BufAppend ==
    /\ phase = "ready" /\ hist.appends < MaxAppends
    /\ \E n \in ChunkLens, f \in 0..1 :
       \E r \in {strbuf_append(Entering(mem, f), sb, Filler(n, hist.appends))} :
         /\ mem' = Leaving(r.m)
         /\ sb' = r.sb
         /\ ret' = r.rc
         /\ call' = [op |-> "append", data |-> Filler(n, hist.appends), rc |-> r.rc,
                     was |-> sb, pre |-> mem]
         /\ hist' = [appends |-> hist.appends + 1,
                     refused |-> hist.refused + (IF r.rc = 0 THEN 0 ELSE 1),
                     grown |-> hist.grown + (IF r.sb.capacity # sb.capacity THEN 1 ELSE 0)]
    /\ UNCHANGED <<env, deep, retv, text, pos, phase, doc, tree1, out, tree2, roots,
                   chain>>

NextBuf ==
    \/ BufInit
    \/ BufAppend

SpecBuf == InitBuf /\ [][NextBuf]_vars

(***************************************************************************)
(* Properties of caller 11 (SpecBuf)                                       *)
(***************************************************************************)
\* The first n bytes of the block m holds at p.
Bytes(m, p, n) == SubSeq(m.heap[p].data, 1, n)

\* C25: after strbuf_init and any sequence of strbuf_append calls,
\* length + 1 <= capacity, the block has capacity bytes and the byte at offset
\* length is zero; a successful append of n bytes adds exactly n to the
\* length and leaves the earlier bytes as they were; a failed append returns
\* -1 and leaves base pointer, length, capacity and contents as before.
C25_BufferInvariant ==
    phase = "ready" =>
        /\ sb.buffer # 0 /\ sb.buffer \in Live(mem)
        /\ sb.length + 1 <= sb.capacity
        /\ mem.heap[sb.buffer].size = sb.capacity
        /\ Len(mem.heap[sb.buffer].data) = sb.length + 1
        /\ mem.heap[sb.buffer].data[sb.length + 1] = 0
        /\ mem.faults = {}
        /\ call.op = "init" => sb.length = 0 /\ sb.capacity = InitialCapacity
        /\ call.op = "append" =>
              /\ call.rc \in {0, -1}
              /\ call.rc = 0 =>
                    /\ sb.length = call.was.length + Len(call.data)
                    /\ Bytes(mem, sb.buffer, call.was.length)
                         = Bytes(call.pre, call.was.buffer, call.was.length)
              /\ call.rc = -1 =>
                    /\ sb = call.was
                    /\ mem.heap[sb.buffer] = call.pre.heap[sb.buffer]

\* An append that was refused, then one that filled the first block to its
\* last byte, then one that needed the capacity doubled twice and the block
\* moved.
C25_Witness ==
    /\ phase = "ready" /\ call.op = "append" /\ call.rc = 0
    /\ hist.refused = 1 /\ hist.grown = 1
    /\ call.was.length = 1023 /\ call.was.capacity = 1024
    /\ sb.length = 2048 /\ sb.capacity = 4096
    /\ sb.buffer # call.was.buffer
    /\ Bytes(mem, sb.buffer, 1023) = Filler(1023, 1)

(***************************************************************************)
(* Caller 12 (SpecTrip): build a tree with the constructors and the add    *)
(* operations, encode it, decode the text, release everything              *)
(***************************************************************************)
\* A node without children to build: the constructor and its argument.
Leaf(kind, b, num, str) == [kind |-> kind, b |-> b, num |-> num, str |-> str]

\* Finite numbers: zero and minus zero, integers, fractions, powers of ten
\* written with an exponent, the ends of the normal range and numbers below
\* it.  A number is held as the decimal its text spells (FormatG17).
TripNums ==
    { Normalise(0, 0, 0), [NumZero EXCEPT !.sign = 1], Normalise(0, 123, 0),
      Normalise(1, 15, -1), Normalise(0, 25, -2), Normalise(0, 1, 20),
      Normalise(1, 1, -5), Normalise(0, 17, 307), Normalise(0, 23, -309),
      Normalise(0, 1, -310), Normalise(1, 5, -324) }

\* Every byte a C string can hold, alone; no byte; several bytes.
TripStrings ==
    {<<b>> : b \in 1..255}
    \cup {<<>>, B(<<"a", "\"", "\\", "/">>), <<8, 12, 10, 13, 9, 1, 31, 127>>,
          <<240, 159, 148, 165>>, <<128, 255>>}

\* The keys of the members.
TripKeys == {B(<<"k">>), <<>>, <<34, 10, 200>>}

TripLeaves ==
    {Leaf("null", 0, NumZero, <<>>), Leaf("array", 0, NumZero, <<>>),
     Leaf("object", 0, NumZero, <<>>)}
    \cup {Leaf("bool", b, NumZero, <<>>) : b \in {0, 1, 2}}
    \cup {Leaf("number", 0, n, <<>>) : n \in TripNums}
    \cup {Leaf("string", 0, NumZero, str) : str \in TripStrings}

\* The leaves that come in twos.
FewLeaves ==
    {Leaf("null", 0, NumZero, <<>>), Leaf("object", 0, NumZero, <<>>),
     Leaf("bool", 0, NumZero, <<>>), Leaf("number", 0, Normalise(1, 15, -1), <<>>),
     Leaf("string", 0, NumZero, <<34>>)}

\* The depths of the deep trees: the deepest the encoder takes and one more.
TripDepths == (RJSON_MAX_DEPTH - 2)..RJSON_MAX_DEPTH

\* depth: the depth of the leaves (0: the one leaf is the root); link: the
\* containers on the way down; key: the key of every member.
Grown(depth, link, key, leaves) ==
    [depth |-> depth, link |-> link, key |-> key, leaves |-> leaves]

TripDocs ==
    {Grown(0, "array", B(<<"k">>), <<l>>) : l \in TripLeaves}
    \cup {Grown(d, "array", B(<<"k">>), <<l>>) : d \in 1..ShallowChain, l \in TripLeaves}
    \cup {Grown(d, "object", k, <<l>>) :
             d \in 1..ShallowChain, k \in TripKeys, l \in TripLeaves}
    \cup {Grown(1, ln, B(<<"k">>), <<l1, l2>>) :
             ln \in {"array", "object"}, l1 \in FewLeaves, l2 \in FewLeaves}
    \cup {Grown(d, ln, B(<<"k">>), <<l>>) :
             d \in TripDepths, ln \in {"array", "object"},
             l \in {Leaf("array", 0, NumZero, <<>>),
                    Leaf("number", 0, Normalise(1, 15, -1), <<>>)}}

InitTrip ==
    /\ InitCaller
    /\ doc \in TripDocs
    /\ \/ doc.depth <= ShallowChain /\ env \in {e \in Envs : e.moves /\ e.zeroFrees}
       \/ doc.depth > ShallowChain /\ env = DeepEnv

\* The constructor call for a leaf.
NewLeaf(m, l) ==
    CASE l.kind = "null"   -> rjson_null_new(m)
      [] l.kind = "bool"   -> rjson_bool_new(m, l.b)
      [] l.kind = "number" -> rjson_number_new(m, l.num)
      [] l.kind = "string" -> rjson_string_new(m, l.str)
      [] l.kind = "array"  -> rjson_array_new(m)
      [] l.kind = "object" -> rjson_object_new(m)

\* rjson_array_add(c, v), or rjson_object_add(c, key, v).
Link(m, c, v) ==
    IF doc.link = "array" THEN rjson_array_add(m, c, v)
    ELSE rjson_object_add(m, c, doc.key, v)

\* root = rjson_xxx_new(...): the leaf itself, or the first container.
TripRoot ==
    /\ phase = "start"
    /\ phase' = "build"
    /\ \E r \in {IF doc.depth = 0 THEN NewLeaf(Entering(mem, 0), doc.leaves[1])
                 ELSE NewNode(Entering(mem, 0), doc.link)} :
         /\ mem' = Leaving(r.m)
         /\ chain' = [root |-> r.p, current |-> r.p, i |-> 0]
    /\ hist' = [hist EXCEPT !.made = IF doc.depth = 0 THEN 1 ELSE 0]
    /\ UNCHANGED <<env, deep, ret, retv, text, pos, sb, doc, tree1, out, tree2, roots,
                   call>>

\* next = rjson_xxx_new(); add(current, next); current = next;
TripDeepen ==
    /\ phase = "build" /\ chain.i < doc.depth - 1
    /\ \E nx \in {NewNode(Entering(mem, 0), doc.link)} :
       \E ad \in {Link(Entering(nx.m, 0), chain.current, nx.p)} :
         /\ mem' = Leaving(ad.m)
         /\ chain' = [chain EXCEPT !.current = nx.p, !.i = chain.i + 1]
    /\ UNCHANGED <<env, deep, ret, retv, text, pos, sb, phase, doc, tree1, out, tree2,
                   hist, roots, call>>

\* add(current, rjson_xxx_new(...)) for the next leaf.
TripLeaf ==
    /\ phase = "build" /\ doc.depth >= 1 /\ chain.i = doc.depth - 1
    /\ hist.made < Len(doc.leaves)
    /\ \E nx \in {NewLeaf(Entering(mem, 0), doc.leaves[hist.made + 1])} :
       \E ad \in {Link(Entering(nx.m, 0), chain.current, nx.p)} :
         mem' = Leaving(ad.m)
    /\ hist' = [hist EXCEPT !.made = @ + 1]
    /\ UNCHANGED <<env, deep, ret, retv, text, pos, sb, phase, doc, tree1, out, tree2,
                   roots, call, chain>>

\* The containers from p down that hold one child, a container: the way
\* down a deep tree, which is no longer than the heap.
RECURSIVE Spine(_, _, _)
Spine(m, p, acc) ==
    IF Len(acc) < Len(m.heap) /\ Count(m, p) = 1 /\ Count(m, Child(m, p, 1)) >= 1
    THEN Spine(m, Child(m, p, 1), Append(acc, p))
    ELSE acc

\* The tree v inside the containers spine[1..i]; a tree has a node.
RECURSIVE Around(_, _, _, _)
Around(m, spine, i, v) ==
    IF i = 0 \/ v.nodes = <<>> THEN v
    ELSE Around(m, spine, i - 1,
                IF m.heap[spine[i]].data.type = "RJSON_ARRAY" THEN AVArray(<<v>>)
                ELSE AVObject(<<Str(m, Slot(m, m.heap[spine[i]].data.keys, 1))>>, <<v>>))

\* TreeOf(m, p), computed along the way down.
TreeAlong(m, p) ==
    Bind(Spine(m, p, <<>>), LAMBDA spine :
        IF spine = <<>> THEN TreeOf(m, p)
        ELSE Around(m, spine, Len(spine), TreeOf(m, Child(m, spine[Len(spine)], 1))))

\* result = rjson_serialize(root, &out, &len) on the tree built.
TripEncode ==
    /\ phase = "build" /\ hist.made = Len(doc.leaves)
    /\ phase' = "encode"
    /\ tree1' = [p |-> chain.root, v |-> TreeAlong(mem, chain.root)]
    /\ hist' = [hist EXCEPT !.dec = "built"]
    /\ \E r \in {Complete(Start(<<Frame("rjson_serialize", "entry", chain.root, 0)>>,
                                Entering(mem, 0), text))} : Return(r)
    /\ UNCHANGED <<env, doc, tree2, roots, call, chain>>

NextTrip ==
    \/ TripRoot
    \/ TripDeepen
    \/ TripLeaf
    \/ TripEncode
    \/ Abandon
    \/ Redecode
    \/ Finish

SpecTrip == InitTrip /\ [][NextTrip]_vars

(***************************************************************************)
(* Properties of caller 12 (SpecTrip)                                      *)
(***************************************************************************)
\* C27: for every tree built with the constructors and the add operations
\* (no NUL in strings and keys, finite numbers) that rjson_serialize
\* encodes, rjson_parse of the text returns a tree, and it is structurally
\* equal to the one built.
C27_BuiltRoundTrip ==
    (Settled /\ hist.dec = "built" /\ hist.enc = "ok") =>
        /\ hist.redec = "ok"
        /\ tree2.v = tree1.v

(***************************************************************************)
(* The decoder and the end of its input (SpecTok)                          *)
(***************************************************************************)
\* C28: on every zero-terminated input, valid or not, the cursor of the
\* decoder never moves past the terminator and no byte behind the terminator
\* is read: not by parse_string after a backslash, not by parse_literal, not
\* by unescape_string looking ahead for the digits of \uHHHH and for a low
\* surrogate, which reads no byte at or behind in_end whatever the span is.
\* The terminator of text is the byte at index Len(text) + 1.
C28_WithinInput ==
    Decoded =>
        /\ pos <= Len(text) + 1
        /\ deep.far <= Len(text) + 1
        /\ \A sp \in Spans(text) : UnescapeLoop(text, sp[1], sp[2], <<>>).far < sp[2]

\* The input ends behind the backslash of a pair's second escape: the
\* scanning loop read the terminator and stopped there.
C28_Witness ==
    /\ Decoded /\ doc.kind = "edge" /\ ret = 0
    /\ Len(text) >= 2 /\ text[Len(text)] = 92 /\ text[Len(text) - 1] = 48
    /\ pos = Len(text) + 1
    /\ deep.far = Len(text) + 1

(***************************************************************************)
(* Caller 13 (SpecStep): rjson_parse one step at a time.  The activations  *)
(* that have not returned are kept in call.stack; a step runs the one on   *)
(* top up to its next call or its return.                                  *)
(***************************************************************************)
\* The largest number of the allocation request that is refused.
MaxStepFail == 2

\* The longest of the edge texts taken.
MaxStepLen == 26

StepTexts ==
    {t \in EdgeTexts : Len(t) <= MaxStepLen}
    \cup {NestArr(3, B(<<"1", ",", "[", "]">>)), NestObj(3, B(<<"1">>)),
          B(<<"[", "1", ",", ",", "]">>), B(<<"{", "\"", "a", "\"", "}">>)}

StepDocs == {[kind |-> "step", text |-> t] : t \in StepTexts}

InitStep ==
    /\ InitCaller
    /\ doc \in StepDocs
    /\ env \in {e \in Envs : e.moves /\ e.zeroFrees /\ e.underflowErange}

\* The machine the variables describe.
Machine == [Start(call.stack, mem, text) EXCEPT !.deep = deep]

Running == phase = "run"

\* val = rjson_parse(text): the call, the f-th allocation request failing.
Enter ==
    /\ phase = "start"
    /\ phase' = "run"
    /\ text' = doc.text
    /\ \E f \in 0..MaxStepFail : mem' = Entering(mem, f)
    /\ call' = [op |-> "rjson_parse",
                stack |-> <<Frame("rjson_parse", "entry", 0, 0)>>]
    /\ UNCHANGED <<env, deep, ret, retv, pos, sb, doc, tree1, out, tree2, hist, roots,
                   chain>>

\* The activation on top runs up to its next call or its return.  hist.made
\* counts the steps, hist.adds the calls of parse_value.
Step ==
    /\ Running /\ call.stack # <<>>
    /\ \E r \in {Library(Machine)} :
         /\ Return(r)
         /\ call' = [call EXCEPT !.stack = r.stack]
         /\ hist' = [hist EXCEPT
                        !.made = @ + 1,
                        !.adds = @ + (IF r.stack # <<>> /\ Top(r).fn = "parse_value"
                                         /\ Top(r).pc = "entry"
                                      THEN 1 ELSE 0)]
    /\ UNCHANGED <<env, phase, doc, tree1, tree2, roots, chain>>

\* rjson_parse has returned to the caller.
Leave ==
    /\ Running /\ call.stack = <<>>
    /\ phase' = "decode"
    /\ mem' = Leaving(mem)
    /\ UNCHANGED <<env, deep, ret, retv, text, pos, sb, doc, tree1, out, tree2, hist,
                   roots, call, chain>>

NextStep ==
    \/ Enter
    \/ Step
    \/ Leave

\* The program is sequential: as long as a call has not returned, its next
\* step is taken.
SpecStep == InitStep /\ [][NextStep]_vars /\ WF_vars(NextStep)

(***************************************************************************)
(* Properties of caller 13 (SpecStep)                                      *)
(***************************************************************************)
\* A step that goes round a loop of parse_array or parse_object, or into
\* one, calls parse_value for the next element: the cursor has advanced.  A
\* call of parse_value that returns a node has advanced the cursor as well.
Advances ==
    (Running /\ call.stack # <<>> /\ call'.stack # <<>>) =>
        LET f == call.stack[Len(call.stack)]
            g == call'.stack[Len(call'.stack)]
        IN  /\ (f.fn \in {"parse_array", "parse_object"} /\ g.fn = "parse_value"
                  /\ g.pc = "entry") => pos' > pos
            /\ (f.fn = "parse_value" /\ f.pc = "entry"
                  /\ Len(call'.stack) < Len(call.stack) /\ ret' # 0) => pos' > pos

\* C29: rjson_parse terminates on every finite zero-terminated input: every
\* iteration of the array loop and of the object loop advances the cursor by
\* at least one byte or returns, and the call eventually returns, a tree or
\* NULL.
C29_Terminates == [][Advances]_vars /\ <>Decoded

\* The call has returned a tree after the loops went round: five calls of
\* parse_value for the array in three arrays.
C29_Witness ==
    /\ Decoded /\ ret # 0 /\ mem.fail = 0
    /\ doc.text = NestArr(3, B(<<"1", ",", "[", "]">>))
    /\ hist.adds = 5
    /\ pos = Len(text) + 1

(***************************************************************************)
(* Properties of callers 2 and 8: what a successful decode leaves allocated *)
(***************************************************************************)
\* The object nodes of the tree rooted at node p.
Objects(m, p) ==
    {q \in Owned(m, p) : /\ m.heap[q].kind = "value"
                         /\ m.heap[q].data.type = "RJSON_OBJECT"}

\* The members of the tree rooted at node p: object node and index.
Members(m, p) ==
    UNION {{<<q, i>> : i \in 1..m.heap[q].data.count} : q \in Objects(m, p)}

\* The blocks of one kind that have been freed.
FreedOf(m, kind) == {q \in 1..Len(m.heap) : ~m.heap[q].live /\ m.heap[q].kind = kind}

\* C30: when the decoder returns a tree, the blocks still allocated are
\* exactly those reachable from the returned root; every temporary has been
\* freed exactly once: one key value node and one key string for each object
\* member of the tree and nothing else for rjson_parse, the scratch buffer of
\* parse_number besides for parse_value, and no block freed twice; each stored
\* key is a live block of characters, so none of the freed temporaries, and
\* no two members share one.
C30_OnlyTheTree ==
    (Decoded /\ ret # 0) =>
        /\ mem.faults = {}
        /\ Live(mem) = Owned(mem, ret)
        /\ Cardinality(FreedOf(mem, "value")) = Cardinality(Members(mem, ret))
        /\ Parsed => Cardinality(FreedOf(mem, "chars")) = Cardinality(Members(mem, ret))
        /\ Tokenized => Cardinality(FreedOf(mem, "chars")) >= Cardinality(Members(mem, ret))
        /\ \A e \in Members(mem, ret) :
             LET k == Slot(mem, mem.heap[e[1]].data.keys, e[2])
             IN  /\ k > 0 /\ mem.heap[k].live /\ mem.heap[k].kind = "chars"
                 /\ \A g \in Members(mem, ret) :
                      Slot(mem, mem.heap[g[1]].data.keys, g[2]) = k => g = e

\* rjson_parse has returned an object of two members: two key value nodes and
\* two key strings have been freed, and the two stored keys are other blocks.
C30_Witness ==
    /\ Parsed /\ ret # 0
    /\ mem.heap[ret].data.type = "RJSON_OBJECT"
    /\ mem.heap[ret].data.count = 2
    /\ Cardinality(FreedOf(mem, "value")) = 2
    /\ Cardinality(FreedOf(mem, "chars")) = 2
    /\ Live(mem) = Owned(mem, ret)


====
